---- MODULE Spec2Model ----
(***************************************************************************)
(* Reconciliation engine and connection gate of BotService                 *)
(* (src/src/services/bot.ts).                                              *)
(*                                                                         *)
(* The event loop is modelled at the granularity of its suspension points: *)
(* every action is one callback or one resumption of an async function and *)
(* runs the synchronous code up to the next await.                         *)
(***************************************************************************)
EXTENDS Integers, Sequences, FiniteSets, TLC

(* ------------------------------ bounds --------------------------------- *)
NumGroups == 2          \* rows returned by prisma.guildConfig.findMany()
NumMembers == 2         \* members of every guild
NumSlots == 2           \* async bodies of checkGuilds that can exist at once
MaxFaults == 1          \* remote/database calls that fail in one behaviour
MaxTagChanges == 1      \* times a member changes the primary-guild tag
PageSize == 1           \* records per page: `limit=1000`, scaled down
NumCallers == 2         \* requests that can be inside start() at once

(* ------------------------- program constants --------------------------- *)
NoTag == 0              \* primary_guild absent: identity_guild_id undefined
NoPromise == 0          \* processingPromise === null
NoChannel == 0          \* logChannelId === null
MAX_RETRIES == 3        \* login attempts of one start() sequence
HEARTBEAT_DEBOUNCE == 2 \* 5000 ms, in time units of 2500 ms
MaxTime == 5            \* time units the clock is followed for
MaxPosts == 3           \* heartbeat POSTs that are counted
LIST_RETRIES == 5       \* one-second waits of GET /api/guilds/list

Groups == 1..NumGroups
Members == 1..NumMembers
Slots == 1..NumSlots
Callers == 1..NumCallers
\* Primary-guild tags members wear: none, or the tag of guild 1.
Tags == {NoTag, 1}

\* prisma.guildConfig.findMany(): one GuildConfig row per guild, in order.
\* Guild 1 has a log channel, the other guilds have none.
GuildConfigs ==
    [g \in Groups |-> [guildId |-> g,
                       representorsRoleId |-> g,
                       logChannelId |-> IF g = 1 THEN 1 ELSE NoChannel]]

\* The roles and the log channels the configs name.
Roles == {GuildConfigs[g].representorsRoleId : g \in Groups}
LogChannels == {GuildConfigs[g].logChannelId : g \in Groups} \ {NoChannel}

VARIABLES
    processingPromise,  \* NoPromise, or the slot of the async body it holds
    pass,               \* slot -> state of one async body of checkGuilds
    lastTick,           \* "dropped": a timer callback returned at line 134
                        \* since the latest pass started
    lastOutcome,        \* how the latest pass ended, until the next starts
    clientReady,        \* client.isReady()
    everReady,          \* the 'ready' event has been emitted
    guildCache,         \* client.guilds.cache
    roleCache,          \* role ids found in guild.roles.cache
    channelCache,       \* channel ids found in guild.channels.cache
    rosterCache,        \* guild -> guild.members.cache
    warm,               \* the 'ready' handler's initializeGuilds() call
    heartbeats,         \* some heartbeat POST is in flight
    roleHolders,        \* platform truth: guild -> members holding the role
    tags,               \* platform truth: member -> primary guild tag
    faults,             \* failed calls so far
    tagChanges,         \* tag changes so far
    documented,         \* the service is the BotService of part_005
                        \* (cooldown, initializationError), not of bot.ts
    isInitializing,     \* this.isInitializing
    readyPromise,       \* state of this.readyPromise
    session,            \* a client.login() has resolved: the gateway is open
    calls,              \* caller -> state of its start() call
    initializationError,\* part_005: this.initializationError ("none": null)
    coolingDown,        \* part_005: Date.now() - lastInitializationAttempt
                        \* is below INITIALIZATION_COOLDOWN
    timers,             \* setInterval timers the service has created
    beat,               \* the clock and what sendHeartbeat has done
    reads,              \* the requests to the routes that list the guilds
    ensure,             \* server-init: botStartPromise, lastError and callers
    script              \* part_000: processingPromise and the passes running

passVars == <<processingPromise, pass, lastTick, lastOutcome>>
connVars == <<clientReady, everReady, guildCache, roleCache, channelCache,
             warm>>
envVars == <<roleHolders, tags, tagChanges>>
startVars == <<documented, isInitializing, readyPromise, session, calls,
               initializationError, coolingDown, timers>>
auxVars == <<beat, reads, ensure, script>>
vars == <<processingPromise, pass, lastTick, lastOutcome, clientReady,
          everReady, guildCache, roleCache, channelCache, rosterCache, warm,
          heartbeats, roleHolders,
          tags, faults, tagChanges, documented, isInitializing, readyPromise,
          session, calls, initializationError, coolingDown, timers, beat, reads,
          ensure, script>>

\* part_005 69-71, 389: Date.now(), this.lastHeartbeat (0 at construction,
\* long before the start of the process), and what the calls of
\* sendHeartbeat did: the POSTs issued so far, the time of the latest, the
\* way the latest call went, whether the interval timer has fired (its
\* period is longer than the time the clock is followed for).
IdleBeat ==
    [now |-> HEARTBEAT_DEBOUNCE,
     lastHeartbeat |-> 0,
     posts |-> 0,
     lastPost |-> 0,
     lastCall |-> "none",
     timerFired |-> FALSE]

\* guilds/list/route.ts 9-32 and bot/test/route.ts 4-18: one request to
\* each route: where its handler is, the `retries` of the wait loop, and the
\* response.
NoResponse == [status |-> "none"]
IdleReads ==
    [list |-> [pc |-> "idle", retries |-> 0, out |-> NoResponse],
     test |-> NoResponse]

\* server-init.ts 9-11, part_026 39-41, part_027 3: the module that defines
\* ensureBotStarted is not loaded yet ("none"); then botStartPromise (slot:
\* 0 for null, else the caller whose start() it wraps; kept: it has resolved
\* and is still stored), the callers awaiting it, lastError with whether
\* lastErrorTime is within ERROR_CACHE_DURATION, and how the latest call of
\* ensureBotStarted went.
IdleEnsure ==
    [variant |-> "none", slot |-> 0, kept |-> FALSE, waiting |-> 0,
     lastError |-> FALSE, errorFresh |-> FALSE, last |-> "none"]

\* part_000 13, 76-188: processingPromise, each async body of lines 76-188
\* (the await it is suspended at, whether the page loop goes on, the role
\* changes left to make), whether client.guilds.cache holds the guild, and
\* what the latest timer callback did.
IdleRun == [pc |-> "idle", more |-> FALSE, left |-> 0]
IdleScript ==
    [processingPromise |-> NoPromise,
     runs |-> [p \in Slots |-> IdleRun],
     guild |-> FALSE,
     lastTick |-> "none"]

AuxInit ==
    /\ beat = IdleBeat
    /\ reads = IdleReads
    /\ ensure = IdleEnsure
    /\ script = IdleScript

(* --------------------------- pass records ------------------------------ *)
\* Locals of checkGuilds / processGuild / fetchMemberGuildData /
\* processMembers that are live across an await.
IdleRec ==
    [pc |-> "idle",          \* await the body is suspended at
     gi |-> 0,               \* index of `config` in `configs`
     mi |-> 0,               \* member the pending role mutation is for
     op |-> "none",          \* pending role mutation
     after |-> 0,            \* pagination cursor
     requests |-> 0,         \* page requests fetchMemberGuildData has issued
     hasMore |-> FALSE,
     truncated |-> FALSE,    \* the pagination loop ended in its catch
     map |-> <<>>,           \* memberGuildMap: member id -> observed guild
     roleChanges |-> <<>>,
     message |-> <<>>,       \* fields of the embed handed to channel.send
     processedCount |-> 0,
     errorCount |-> 0,
     decisions |-> <<>>]     \* (shouldHaveRole, hasRole, branch) per member

RemoteWait == {"refresh", "fetch", "mutate", "send"}

Active(p) == pass[p].pc # "idle"
ActiveSlots == {p \in Slots : Active(p)}

(* ------------------------ processGuild prologue ------------------------ *)
GuildResolves(c) == c.guildId \in guildCache
RoleResolves(c) == c.representorsRoleId \in roleCache
ChannelResolves(c) == c.logChannelId \in channelCache

\* The early returns of processGuild without the one for the log channel.
SkippedUnlessChannel(c) ==
    \/ ~GuildResolves(c)
    \/ ~RoleResolves(c)

\* bot.ts 153-169: the three early returns of processGuild.
Skipped(c) ==
    \/ ~GuildResolves(c)
    \/ ~RoleResolves(c)
    \/ (c.logChannelId # NoChannel /\ ~ChannelResolves(c))

\* bot.ts 140-142 and 152-172: the for loop calls processGuild for configs
\* i, i+1, ... without suspending until one of them reaches
\* `await guild.members.fetch()`; past the last config the body returns.
RECURSIVE ProcessGuildFrom(_)
ProcessGuildFrom(i) ==
    IF i > Len(GuildConfigs) THEN IdleRec
    ELSE IF Skipped(GuildConfigs[i]) THEN ProcessGuildFrom(i + 1)
    ELSE [IdleRec EXCEPT !.pc = "refresh", !.gi = i]

(* ---------------------------- processMembers --------------------------- *)
\* bot.ts 226-229
ShouldHaveRoleAnyTag(map, m, c) ==
    LET currentGuildId == IF m \in DOMAIN map THEN map[m] ELSE NoTag
    IN  currentGuildId # NoTag

ShouldHaveRole(map, m, c) ==
    LET currentGuildId == IF m \in DOMAIN map THEN map[m] ELSE NoTag
    IN  currentGuildId = c.guildId

\* bot.ts 230
HasRoleNever(c, m) == FALSE

HasRole(c, m) == m \in rosterCache[c.guildId].holders

\* guild.members.cache in iteration order
CachedMembers(c) ==
    IF rosterCache[c.guildId].fetched THEN NumMembers ELSE 0

\* bot.ts 232-238: which branch of the if / else-if is taken.
DecideRemoveUntagged(shouldHaveRole, hasRole) ==
    IF shouldHaveRole /\ ~hasRole THEN "add"
    ELSE IF ~shouldHaveRole THEN "remove"
    ELSE "none"

Decide(shouldHaveRole, hasRole) ==
    IF shouldHaveRole /\ ~hasRole THEN "add"
    ELSE IF ~shouldHaveRole /\ hasRole THEN "remove"
    ELSE "none"

\* bot.ts 259-274: the fields of the embed, each listing display names.
IsAdd(change) == change.type = "add"
IsRemove(change) == change.type = "remove"
DisplayNames(changes) == [i \in 1..Len(changes) |-> changes[i].member]

EmbedBothFields(changes) ==
    <<[name |-> "Added", value |-> DisplayNames(SelectSeq(changes, IsAdd))],
      [name |-> "Removed",
       value |-> DisplayNames(SelectSeq(changes, IsRemove))]>>

Embed(changes) ==
    LET added == SelectSeq(changes, IsAdd)
        removed == SelectSeq(changes, IsRemove)
    IN  (IF Len(added) > 0
         THEN <<[name |-> "Added", value |-> DisplayNames(added)]>>
         ELSE <<>>)
        \o (IF Len(removed) > 0
            THEN <<[name |-> "Removed", value |-> DisplayNames(removed)]>>
            ELSE <<>>)

\* The return to the for loop of checkGuilds without the audit message.
AfterMembersNoAudit(rec) == ProcessGuildFrom(rec.gi + 1)

\* bot.ts 178-180 and the return to the for loop of checkGuilds.
AfterMembers(rec) ==
    LET c == GuildConfigs[rec.gi]
    IN  IF Len(rec.roleChanges) > 0 /\ c.logChannelId # NoChannel
        THEN [rec EXCEPT !.pc = "send", !.message = Embed(rec.roleChanges)]
        ELSE ProcessGuildFrom(rec.gi + 1)

\* bot.ts 224-248: the member loop from member k on, up to the next
\* `await member.roles.add/remove` or to the end of the loop.
RECURSIVE ProcessMembersFrom(_, _)
ProcessMembersFrom(rec, k) ==
    LET c == GuildConfigs[rec.gi]
    IN  IF k > CachedMembers(c) THEN AfterMembers(rec)
        ELSE LET should == ShouldHaveRole(rec.map, k, c)
                 has == HasRole(c, k)
                 branch == Decide(should, has)
                 seen == Append(rec.decisions,
                                [member |-> k, should |-> should,
                                 has |-> has, op |-> branch])
             IN  IF branch = "none"
                 THEN ProcessMembersFrom(
                          [rec EXCEPT !.decisions = seen,
                                      !.processedCount = @ + 1], k + 1)
                 ELSE [rec EXCEPT !.pc = "mutate", !.mi = k, !.op = branch,
                                  !.decisions = seen]

(* ------------------------------ helpers -------------------------------- *)
\* The body of checkGuilds has returned when its record is idle again;
\* `await this.processingPromise` then resumes in the same turn of the
\* event loop and line 149 clears the field.
Settle(p, rec, outcome) ==
    /\ pass' = [pass EXCEPT ![p] = rec]
    /\ IF rec.pc = "idle"
       THEN /\ processingPromise' = NoPromise
            /\ lastOutcome' = outcome
       ELSE UNCHANGED <<processingPromise, lastOutcome>>

\* GET /guilds/{id}/members?limit=..&after=..: the members after the cursor.
RECURSIVE PageAfter(_, _)
PageAfter(after, n) ==
    IF n = 0 \/ after + 1 > NumMembers THEN <<>>
    ELSE <<after + 1>> \o PageAfter(after + 1, n - 1)

RECURSIVE SetAll(_, _, _)
SetAll(map, ids, i) ==
    IF i > Len(ids) THEN map
    ELSE SetAll((ids[i] :> tags[ids[i]]) @@ map, ids, i + 1)

(* ----------------------------- start() calls -------------------------- *)
\* Errors a start() call rejects with, by their messages.
NoError == "none"
LoginExhaustedError == "Failed to login after maximum retries"
RaceTimeoutErrorSame == "Failed to login after maximum retries"
RaceTimeoutError == "Bot initialization timed out"
TokenMissingError == "Discord bot token not found"
ClientError == "client error"      \* the argument of the 'error' event
RequestError == "request failed"   \* a rejected guilds.fetch() or findMany()

\* One call of start(): the await it is suspended at, the `attempt` argument
\* of attemptLogin, the config index of its initializeGuilds loop, and how
\* its promise settled ("none": pending or never called).
IdleCall == [pc |-> "idle", attempt |-> 0, gi |-> 0, out |-> NoError]

\* The call is past line 389 and before line 414 / 417.
OwnerWait ==
    {"login", "retryDelay", "race", "guildsFetch", "initConfigs", "initFetch"}

Owners == {c \in Callers : calls[c].pc \in OwnerWait}
InLogin == {c \in Callers : calls[c].pc \in {"login", "retryDelay"}}

\* The promise of a call settles.
Settled(c, out) == [IdleCall EXCEPT !.out = out]

(* -------------------------------- Init --------------------------------- *)
Init ==
    /\ processingPromise = NoPromise
    /\ pass = [p \in Slots |-> IdleRec]
    /\ lastTick = "none"
    /\ lastOutcome = "none"
    /\ clientReady = FALSE
    /\ everReady = FALSE
    /\ guildCache = {}
    /\ roleCache = {}
    /\ channelCache = {}
    /\ rosterCache = [g \in Groups |-> [fetched |-> FALSE, holders |-> {}]]
    /\ warm = [pc |-> "idle", gi |-> 0]
    /\ heartbeats = FALSE
    /\ roleHolders = [g \in Groups |-> {}]
    /\ tags \in [Members -> Tags]
    /\ faults = 0
    /\ tagChanges = 0
    /\ documented = FALSE
    /\ isInitializing = FALSE
    /\ readyPromise = "pending"
    /\ session = FALSE
    /\ calls = [c \in Callers |-> IdleCall]
    /\ initializationError = NoError
    /\ coolingDown = FALSE
    /\ timers = [checkGuilds |-> 1, sendHeartbeat |-> 1]
    /\ AuxInit

(* ------------------------- reconciliation timer ------------------------ *)
LowestFree(p) == ~Active(p) /\ \A q \in Slots : q < p => Active(q)

\* A timer callback that starts a pass whatever processingPromise holds.
CheckGuildsTickNoGuard ==
    /\ \E p \in Slots :
          /\ LowestFree(p)
          /\ pass' = [pass EXCEPT ![p] = [IdleRec EXCEPT !.pc = "configs"]]
          /\ processingPromise' = p
    /\ lastTick' = "none"
    /\ lastOutcome' = "none"
    /\ UNCHANGED <<startVars, auxVars>>
    /\ UNCHANGED <<connVars, rosterCache, heartbeats, envVars,
                   faults>>

\* A timer callback that, finding a pass running, makes it start over.
CheckGuildsTickRestart ==
    /\ IF processingPromise # NoPromise
       THEN /\ lastTick' = "dropped"
            /\ pass' = [pass EXCEPT ![processingPromise] =
                           [IdleRec EXCEPT !.pc = "configs"]]
            /\ UNCHANGED <<processingPromise, lastOutcome>>
       ELSE /\ \E p \in Slots :
                  /\ LowestFree(p)
                  /\ pass' = [pass EXCEPT ![p] =
                                 [IdleRec EXCEPT !.pc = "configs"]]
                  /\ processingPromise' = p
            /\ lastTick' = "none"
            /\ lastOutcome' = "none"
    /\ UNCHANGED <<startVars, auxVars>>
    /\ UNCHANGED <<connVars, rosterCache, heartbeats, envVars,
                   faults>>

\* bot.ts 112 and 133-138: setInterval(() => this.checkGuilds(), 5000).
\* With the field set the callback returns at line 134; otherwise the async
\* body starts and suspends at `await prisma.guildConfig.findMany()`.
CheckGuildsTick ==
    /\ IF processingPromise # NoPromise
       THEN /\ lastTick' = "dropped"
            /\ UNCHANGED <<processingPromise, pass, lastOutcome>>
       ELSE /\ \E p \in Slots :
                  /\ LowestFree(p)
                  /\ pass' = [pass EXCEPT ![p] =
                                 [IdleRec EXCEPT !.pc = "configs"]]
                  /\ processingPromise' = p
            /\ lastTick' = "none"
            /\ lastOutcome' = "none"
    /\ UNCHANGED <<startVars, auxVars>>
    /\ UNCHANGED <<connVars, rosterCache, heartbeats, envVars,
                   faults>>

(* ------------------------------ checkGuilds ---------------------------- *)
\* bot.ts 138-142: findMany resolves; the for loop starts.
FindManyOk(p) ==
    /\ pass[p].pc = "configs"
    /\ Settle(p, ProcessGuildFrom(1), "completed")
    /\ UNCHANGED <<startVars, auxVars>>
    /\ UNCHANGED <<lastTick, connVars, rosterCache, heartbeats, envVars,
                   faults>>

\* A rejected findMany after which the loop runs all the same.
FindManyFailContinues(p) ==
    /\ pass[p].pc = "configs"
    /\ faults < MaxFaults
    /\ faults' = faults + 1
    /\ Settle(p, ProcessGuildFrom(1), "configError")
    /\ UNCHANGED <<startVars, auxVars>>
    /\ UNCHANGED <<lastTick, connVars, rosterCache, heartbeats, envVars>>

\* bot.ts 138, 143-149: findMany rejects; the catch logs and the body ends.
FindManyFail(p) ==
    /\ pass[p].pc = "configs"
    /\ faults < MaxFaults
    /\ faults' = faults + 1
    /\ Settle(p, IdleRec, "configError")
    /\ UNCHANGED <<startVars, auxVars>>
    /\ UNCHANGED <<lastTick, connVars, rosterCache, heartbeats, envVars>>

(* ------------------------------ processGuild --------------------------- *)
\* bot.ts 172-175, 183-192: members.fetch() resolves, the roster cache holds
\* the platform's members; fetchMemberGuildData requests its first page.
RefreshOk(p) ==
    /\ pass[p].pc = "refresh"
    /\ LET g == GuildConfigs[pass[p].gi].guildId
       IN  rosterCache' = [rosterCache EXCEPT ![g] =
                              [fetched |-> TRUE, holders |-> roleHolders[g]]]
    /\ pass' = [pass EXCEPT ![p] = [@ EXCEPT !.pc = "fetch", !.after = 0,
                                             !.hasMore = TRUE, !.map = <<>>]]
    /\ UNCHANGED <<startVars, auxVars>>
    /\ UNCHANGED <<processingPromise, lastTick, lastOutcome, connVars,
                   heartbeats, envVars, faults>>

\* A rejected members.fetch() that nothing catches: the promise held by
\* processingPromise rejects and line 149 is never reached.
RefreshFailUncaught(p) ==
    /\ pass[p].pc = "refresh"
    /\ faults < MaxFaults
    /\ faults' = faults + 1
    /\ pass' = [pass EXCEPT ![p] = IdleRec]
    /\ lastOutcome' = "groupError"
    /\ UNCHANGED <<startVars, auxVars>>
    /\ UNCHANGED <<processingPromise, lastTick, connVars, rosterCache,
                   heartbeats, envVars>>

\* A rejected members.fetch() after which processGuild goes on to line 173.
RefreshFailIgnored(p) ==
    /\ pass[p].pc = "refresh"
    /\ faults < MaxFaults
    /\ faults' = faults + 1
    /\ pass' = [pass EXCEPT ![p] = [@ EXCEPT !.pc = "fetch", !.after = 0,
                                             !.hasMore = TRUE, !.map = <<>>]]
    /\ UNCHANGED <<startVars, auxVars>>
    /\ UNCHANGED <<processingPromise, lastTick, lastOutcome, connVars,
                   rosterCache, heartbeats, envVars>>

\* bot.ts 172 with 143-149: members.fetch() rejects; processGuild has no
\* try, so the rejection leaves the for loop and reaches the catch of
\* checkGuilds, which ends the body.
RefreshFail(p) ==
    /\ pass[p].pc = "refresh"
    /\ faults < MaxFaults
    /\ faults' = faults + 1
    /\ Settle(p, IdleRec, "groupError")
    /\ UNCHANGED <<startVars, auxVars>>
    /\ UNCHANGED <<lastTick, connVars, rosterCache, heartbeats, envVars>>

(* -------------------------- fetchMemberGuildData ----------------------- *)
\* bot.ts 203
HasMoreStrict(guildData) == Len(guildData) > PageSize

HasMore(guildData) == Len(guildData) = PageSize

\* bot.ts 190-205: a page arrives; then the inter-page delay.
PageOk(p) ==
    /\ pass[p].pc = "fetch"
    /\ LET rec == [pass[p] EXCEPT !.requests = @ + 1]
           guildData == PageAfter(rec.after, PageSize)
       IN  pass' = [pass EXCEPT ![p] =
              IF Len(guildData) = 0
              THEN [rec EXCEPT !.pc = "delay", !.hasMore = FALSE]
              ELSE [rec EXCEPT !.pc = "delay",
                               !.map = SetAll(rec.map, guildData, 1),
                               !.after = guildData[Len(guildData)],
                               !.hasMore = HasMore(guildData)]]
    /\ UNCHANGED <<startVars, auxVars>>
    /\ UNCHANGED <<processingPromise, lastTick, lastOutcome, connVars,
                   rosterCache, heartbeats, envVars, faults>>

\* A rejected page request that is issued again.
PageFailRetries(p) ==
    /\ pass[p].pc = "fetch"
    /\ faults < MaxFaults
    /\ faults' = faults + 1
    /\ pass' = [pass EXCEPT ![p] = [@ EXCEPT !.requests = @ + 1]]
    /\ UNCHANGED <<startVars, auxVars>>
    /\ UNCHANGED <<processingPromise, lastOutcome, lastTick, connVars,
                   rosterCache, heartbeats, envVars>>

\* bot.ts 206-212 then 176: the request rejects, the loop ends and the map
\* gathered so far goes to processMembers.
PageFail(p) ==
    /\ pass[p].pc = "fetch"
    /\ faults < MaxFaults
    /\ faults' = faults + 1
    /\ Settle(p, ProcessMembersFrom([pass[p] EXCEPT !.hasMore = FALSE,
                                                    !.truncated = TRUE,
                                                    !.requests = @ + 1], 1),
              "completed")
    /\ UNCHANGED <<startVars, auxVars>>
    /\ UNCHANGED <<lastTick, connVars, rosterCache, heartbeats, envVars>>

\* bot.ts 205, 188, 212, 176: the delay elapses; next page or processMembers.
DelayDone(p) ==
    /\ pass[p].pc = "delay"
    /\ IF pass[p].hasMore
       THEN /\ pass' = [pass EXCEPT ![p] = [@ EXCEPT !.pc = "fetch"]]
            /\ UNCHANGED <<processingPromise, lastOutcome>>
       ELSE Settle(p, ProcessMembersFrom(pass[p], 1), "completed")
    /\ UNCHANGED <<startVars, auxVars>>
    /\ UNCHANGED <<lastTick, connVars, rosterCache, heartbeats, envVars,
                   faults>>

(* ---------------------------- role mutations --------------------------- *)
\* bot.ts 233-240: roles.add / roles.remove resolves.
MutateOk(p) ==
    /\ pass[p].pc = "mutate"
    /\ LET rec == pass[p]
           g == GuildConfigs[rec.gi].guildId
           rec2 == [rec EXCEPT !.roleChanges =
                                   Append(@, [type |-> rec.op,
                                              member |-> rec.mi]),
                               !.processedCount = @ + 1,
                               !.op = "none", !.mi = 0]
       IN  /\ roleHolders' = [roleHolders EXCEPT ![g] =
                                 IF rec.op = "add" THEN @ \cup {rec.mi}
                                 ELSE @ \ {rec.mi}]
           /\ Settle(p, ProcessMembersFrom(rec2, rec.mi + 1), "completed")
    /\ UNCHANGED <<startVars, auxVars>>
    /\ UNCHANGED <<lastTick, connVars, rosterCache, heartbeats, tags,
                   tagChanges, faults>>

\* A rejected mutation that ends the member loop of the group.
MutateFailBreaks(p) ==
    /\ pass[p].pc = "mutate"
    /\ faults < MaxFaults
    /\ faults' = faults + 1
    /\ Settle(p, AfterMembers([pass[p] EXCEPT !.errorCount = @ + 1,
                                              !.processedCount = @ + 1,
                                              !.op = "none", !.mi = 0]),
              "completed")
    /\ UNCHANGED <<startVars, auxVars>>
    /\ UNCHANGED <<lastTick, connVars, rosterCache, heartbeats, envVars>>

\* A rejected mutation that is pushed to roleChanges all the same.
MutateFailRecorded(p) ==
    /\ pass[p].pc = "mutate"
    /\ faults < MaxFaults
    /\ faults' = faults + 1
    /\ LET rec == pass[p]
           rec2 == [rec EXCEPT !.roleChanges =
                                   Append(@, [type |-> rec.op,
                                              member |-> rec.mi]),
                               !.errorCount = @ + 1,
                               !.processedCount = @ + 1,
                               !.op = "none", !.mi = 0]
       IN  Settle(p, ProcessMembersFrom(rec2, rec.mi + 1), "completed")
    /\ UNCHANGED <<startVars, auxVars>>
    /\ UNCHANGED <<lastTick, connVars, rosterCache, heartbeats, envVars>>

\* bot.ts 241-245: roles.add / roles.remove rejects; the catch inside the
\* loop counts the error and the loop goes on.
MutateFail(p) ==
    /\ pass[p].pc = "mutate"
    /\ faults < MaxFaults
    /\ faults' = faults + 1
    /\ LET rec == pass[p]
           rec2 == [rec EXCEPT !.errorCount = @ + 1,
                               !.processedCount = @ + 1,
                               !.op = "none", !.mi = 0]
       IN  Settle(p, ProcessMembersFrom(rec2, rec.mi + 1), "completed")
    /\ UNCHANGED <<startVars, auxVars>>
    /\ UNCHANGED <<lastTick, connVars, rosterCache, heartbeats, envVars>>

(* ---------------------------- sendRoleChangeLog ------------------------ *)
\* bot.ts 277: channel.send resolves; processGuild returns.
SendOk(p) ==
    /\ pass[p].pc = "send"
    /\ Settle(p, ProcessGuildFrom(pass[p].gi + 1), "completed")
    /\ UNCHANGED <<startVars, auxVars>>
    /\ UNCHANGED <<lastTick, connVars, rosterCache, heartbeats, envVars,
                   faults>>

\* A rejected channel.send that is issued again.
SendFailRetries(p) ==
    /\ pass[p].pc = "send"
    /\ faults < MaxFaults
    /\ faults' = faults + 1
    /\ UNCHANGED <<startVars, auxVars>>
    /\ UNCHANGED <<passVars, connVars, rosterCache, heartbeats, envVars>>

\* bot.ts 278-283: channel.send rejects; both branches of the catch return.
SendFail(p) ==
    /\ pass[p].pc = "send"
    /\ faults < MaxFaults
    /\ faults' = faults + 1
    /\ Settle(p, ProcessGuildFrom(pass[p].gi + 1), "completed")
    /\ UNCHANGED <<startVars, auxVars>>
    /\ UNCHANGED <<lastTick, connVars, rosterCache, heartbeats, envVars>>

PassStep(p) ==
    \/ FindManyOk(p) \/ FindManyFail(p)
    \/ RefreshOk(p) \/ RefreshFail(p)
    \/ PageOk(p) \/ PageFail(p) \/ DelayDone(p)
    \/ MutateOk(p) \/ MutateFail(p)
    \/ SendOk(p) \/ SendFail(p)

(* ------------------------ connection and its events -------------------- *)
\* bot.ts 119-124: initializeGuilds from config i on, up to the next
\* `await guild.members.fetch()` or to the end of the loop.
RECURSIVE InitializeGuildsFrom(_, _)
InitializeGuildsFrom(cache, i) ==
    IF i > Len(GuildConfigs) THEN [pc |-> "idle", gi |-> 0]
    ELSE IF GuildConfigs[i].guildId \notin cache
         THEN InitializeGuildsFrom(cache, i + 1)
         ELSE [pc |-> "fetch", gi |-> i]

\* bot.ts 60-66 and 423-425: the platform's ready signal. The client reports
\* isReady(), its guild cache holds the bot's guilds, readyResolve() settles
\* readyPromise (the race of line 399 and the callers that were handed
\* readyPromise resume in the same turn), and the handler suspends at the
\* findMany of initializeGuilds.
ClientReady ==
    /\ ~everReady
    /\ everReady' = TRUE
    /\ clientReady' = TRUE
    /\ guildCache' = Groups
    /\ roleCache' = Roles
    /\ channelCache' = LogChannels
    /\ warm' = [pc |-> "configs", gi |-> 0]
    /\ readyPromise' = IF readyPromise = "pending" THEN "resolved"
                       ELSE readyPromise
    /\ calls' = [c \in Callers |->
                    IF readyPromise # "pending" THEN calls[c]
                    ELSE IF calls[c].pc = "race"
                         THEN [calls[c] EXCEPT !.pc = "guildsFetch"]
                    ELSE IF calls[c].pc = "shared"
                         THEN Settled(c, "resolved")
                    ELSE calls[c]]
    /\ UNCHANGED <<documented, isInitializing, session, initializationError,
                   coolingDown, timers>>
    /\ UNCHANGED <<auxVars, passVars, rosterCache, heartbeats, envVars, faults>>

\* bot.ts 118-119
WarmFindManyOk ==
    /\ warm.pc = "configs"
    /\ warm' = InitializeGuildsFrom(guildCache, 1)
    /\ UNCHANGED <<startVars, auxVars>>
    /\ UNCHANGED <<passVars, clientReady, everReady, guildCache, roleCache,
                   channelCache, rosterCache,
                   heartbeats, envVars, faults>>

\* bot.ts 118 with 65-69: findMany rejects; the handler's catch logs it.
WarmFindManyFail ==
    /\ warm.pc = "configs"
    /\ faults < MaxFaults
    /\ faults' = faults + 1
    /\ warm' = [pc |-> "idle", gi |-> 0]
    /\ UNCHANGED <<startVars, auxVars>>
    /\ UNCHANGED <<passVars, clientReady, everReady, guildCache, roleCache,
                   channelCache, rosterCache,
                   heartbeats, envVars>>

\* bot.ts 125-126: the warm fetch of one guild resolves.
WarmFetchOk ==
    /\ warm.pc = "fetch"
    /\ LET g == GuildConfigs[warm.gi].guildId
       IN  rosterCache' = [rosterCache EXCEPT ![g] =
                              [fetched |-> TRUE, holders |-> roleHolders[g]]]
    /\ warm' = InitializeGuildsFrom(guildCache, warm.gi + 1)
    /\ UNCHANGED <<startVars, auxVars>>
    /\ UNCHANGED <<passVars, clientReady, everReady, guildCache, roleCache,
                   channelCache, heartbeats,
                   envVars, faults>>

\* bot.ts 127-129: the warm fetch of one guild rejects; logged, loop goes on.
WarmFetchFail ==
    /\ warm.pc = "fetch"
    /\ faults < MaxFaults
    /\ faults' = faults + 1
    /\ warm' = InitializeGuildsFrom(guildCache, warm.gi + 1)
    /\ UNCHANGED <<startVars, auxVars>>
    /\ UNCHANGED <<passVars, clientReady, everReady, guildCache, roleCache,
                   channelCache, rosterCache,
                   heartbeats, envVars>>

\* bot.ts 98-100: the connection drops. The handler only logs and the caches
\* keep their content. Whether client.isReady() turns false is decided by
\* the discord.js build, which the repository does not pin: both outcomes.
ShardDisconnect ==
    /\ clientReady
    /\ clientReady' \in BOOLEAN
    /\ UNCHANGED <<startVars, auxVars>>
    /\ UNCHANGED <<passVars, everReady, guildCache, roleCache, channelCache,
                   rosterCache, warm,
                   heartbeats, envVars, faults>>

\* bot.ts 106-109: the connection resumes; the handler sends a heartbeat.
ShardResume ==
    /\ everReady
    /\ clientReady' = TRUE
    /\ heartbeats' = TRUE
    /\ UNCHANGED <<startVars, auxVars>>
    /\ UNCHANGED <<passVars, everReady, guildCache, roleCache, channelCache,
                   rosterCache, warm,
                   envVars, faults>>

(* ------------------------------- heartbeat ----------------------------- *)
\* bot.ts 114 and 286-294: setInterval(() => this.sendHeartbeat(), 30000).
HeartbeatTick ==
    /\ heartbeats' = TRUE
    /\ UNCHANGED <<startVars, auxVars>>
    /\ UNCHANGED <<passVars, connVars, rosterCache, envVars, faults>>

\* A POST that settles badly and takes the interval timer down with it.
HeartbeatDoneStopsTimer ==
    /\ heartbeats
    /\ heartbeats' \in BOOLEAN
    /\ timers' = [timers EXCEPT !.sendHeartbeat = 0]
    /\ UNCHANGED <<documented, isInitializing, readyPromise, session, calls,
                   initializationError, coolingDown, auxVars>>
    /\ UNCHANGED <<passVars, connVars, rosterCache, envVars, faults>>

\* bot.ts 295-300: a POST settles; a bad status or a rejection is logged.
\* Other POSTs may still be in flight.
HeartbeatDone ==
    /\ heartbeats
    /\ heartbeats' \in BOOLEAN
    /\ UNCHANGED <<startVars, auxVars>>
    /\ UNCHANGED <<passVars, connVars, rosterCache, envVars, faults>>

\* bot.ts 286-294; part_005 388-400: sendHeartbeat() up to its await. In
\* part_005 a call within the debounce window of the latest POST returns at
\* once; otherwise lastHeartbeat is set and the POST is issued.
Debounced ==
    documented /\ beat.now - beat.lastHeartbeat < HEARTBEAT_DEBOUNCE

SendHeartbeat(fired) ==
    IF Debounced
    THEN /\ beat' = [beat EXCEPT !.lastCall = "ignored", !.timerFired = fired]
         /\ UNCHANGED heartbeats
    ELSE /\ beat.posts < MaxPosts
         /\ beat' = [beat EXCEPT
                        !.lastHeartbeat = IF documented THEN beat.now ELSE @,
                        !.posts = @ + 1,
                        !.lastPost = beat.now,
                        !.lastCall = "posted",
                        !.timerFired = fired]
         /\ heartbeats' = TRUE

\* bot.ts 114, part_005 174: the interval timer calls sendHeartbeat.
HeartbeatTimer ==
    /\ ~beat.timerFired
    /\ SendHeartbeat(TRUE)
    /\ UNCHANGED <<passVars, connVars, rosterCache, envVars, faults,
                   startVars, reads, ensure, script>>

\* bot.ts 89-92, part_005 149-152: the 'shardReady' handler.
ShardReadyBeat ==
    /\ SendHeartbeat(beat.timerFired)
    /\ UNCHANGED <<passVars, connVars, rosterCache, envVars, faults,
                   startVars, reads, ensure, script>>

\* bot.ts 106-109, part_005 166-169: the 'shardResume' handler.
ShardResumeBeat ==
    /\ SendHeartbeat(beat.timerFired)
    /\ UNCHANGED <<passVars, connVars, rosterCache, envVars, faults,
                   startVars, reads, ensure, script>>

\* A POST of sendHeartbeat settles (bot.ts 295-300), as in HeartbeatDone.
BeatDone ==
    /\ heartbeats
    /\ heartbeats' \in BOOLEAN
    /\ UNCHANGED <<passVars, connVars, rosterCache, envVars, faults,
                   startVars, auxVars>>

\* Date.now() moves on by one unit.
TimePasses ==
    /\ beat.now < MaxTime
    /\ beat' = [beat EXCEPT !.now = @ + 1, !.lastCall = "none"]
    /\ UNCHANGED <<passVars, connVars, rosterCache, heartbeats, envVars,
                   faults, startVars, reads, ensure, script>>

(* ------------------------------- platform ------------------------------ *)
\* A member changes the primary-guild tag (README, "Usage").
TagChange ==
    /\ tagChanges < MaxTagChanges
    /\ \E m \in Members, t \in Tags :
          /\ t # tags[m]
          /\ tags' = [tags EXCEPT ![m] = t]
    /\ tagChanges' = tagChanges + 1
    /\ UNCHANGED <<startVars, auxVars>>
    /\ UNCHANGED <<passVars, connVars, rosterCache, heartbeats, roleHolders,
                   faults>>

\* The bot is removed from a guild, a role is deleted, a channel is deleted:
\* discord.js drops the entry from the cache processGuild reads (bot.ts 153,
\* 158, 164).
GuildDeleted(g) ==
    /\ g \in guildCache
    /\ guildCache' = guildCache \ {g}
    /\ UNCHANGED <<startVars, auxVars>>
    /\ UNCHANGED <<passVars, clientReady, everReady, roleCache, channelCache,
                   warm, rosterCache, heartbeats, envVars, faults>>

RoleDeleted(r) ==
    /\ r \in roleCache
    /\ roleCache' = roleCache \ {r}
    /\ UNCHANGED <<startVars, auxVars>>
    /\ UNCHANGED <<passVars, clientReady, everReady, guildCache, channelCache,
                   warm, rosterCache, heartbeats, envVars, faults>>

ChannelDeleted(ch) ==
    /\ ch \in channelCache
    /\ channelCache' = channelCache \ {ch}
    /\ UNCHANGED <<startVars, auxVars>>
    /\ UNCHANGED <<passVars, clientReady, everReady, guildCache, roleCache,
                   warm, rosterCache, heartbeats, envVars, faults>>

(* --------------------------------- start() ----------------------------- *)
\* bot.ts 381: another start() is between line 389 and line 414 / 417.
AttemptInProgressNever == FALSE

AttemptInProgress == isInitializing

\* bot.ts 370
MayRetryOnceMore(attempt) == attempt <= MAX_RETRIES

MayRetry(attempt) == attempt < MAX_RETRIES

\* bot.ts 423-425; part_005 568-570.
IsLoggedIn ==
    IF documented THEN clientReady /\ initializationError = NoError
    ELSE clientReady

\* bot.ts 416-420, part_005 556-560: the catch of start().
FailStart(c, error) ==
    /\ isInitializing' = FALSE
    /\ initializationError' = IF documented THEN error ELSE initializationError
    /\ calls' = [calls EXCEPT ![c] = Settled(c, error)]

\* bot.ts 380-396, part_005 510-536: start() up to its first await, for a
\* caller that finds process.env.DISCORD_TOKEN set (token) or not.
StartSequence(c, token) ==
    /\ calls[c].pc = "idle"
    /\ IF documented /\ initializationError # NoError /\ coolingDown
       THEN \* part_005 512-514: the recent error is thrown again
            /\ calls' = [calls EXCEPT ![c] =
                            [IdleCall EXCEPT !.out = initializationError]]
            /\ UNCHANGED <<isInitializing, initializationError, coolingDown>>
       ELSE IF AttemptInProgress
       THEN \* 381-383: the caller's promise follows readyPromise
            /\ calls' = [calls EXCEPT ![c] =
                  CASE readyPromise = "pending" ->
                           [IdleCall EXCEPT !.pc = "shared"]
                    [] readyPromise = "resolved" ->
                           [IdleCall EXCEPT !.out = "resolved"]
                    [] OTHER -> [IdleCall EXCEPT !.out = ClientError]]
            /\ UNCHANGED <<isInitializing, initializationError, coolingDown>>
       ELSE IF clientReady
       THEN \* 385-387
            /\ calls' = [calls EXCEPT ![c] =
                            [IdleCall EXCEPT !.out = "resolved"]]
            /\ UNCHANGED <<isInitializing, initializationError, coolingDown>>
       ELSE IF ~token
       THEN \* 389-393 leaves the flag set; part_005 524-533 resets it
            /\ isInitializing' = ~documented
            /\ initializationError' =
                   IF documented THEN TokenMissingError
                   ELSE initializationError
            /\ coolingDown' = documented
            /\ calls' = [calls EXCEPT ![c] =
                            [IdleCall EXCEPT !.out = TokenMissingError]]
       ELSE \* 389, 396, 362-365: first client.login(token)
            /\ isInitializing' = TRUE
            /\ initializationError' = NoError
            /\ coolingDown' = documented
            /\ calls' = [calls EXCEPT ![c] =
                            [IdleCall EXCEPT !.pc = "login", !.attempt = 1]]

\* A start() that also schedules the two recurring timers.
StartCallSchedulesTimers(c, token) ==
    /\ StartSequence(c, token)
    /\ timers' = [checkGuilds |-> timers.checkGuilds + 1,
                  sendHeartbeat |-> timers.sendHeartbeat + 1]
    /\ UNCHANGED <<documented, readyPromise, session>>
    /\ UNCHANGED <<auxVars, passVars, connVars, rosterCache, heartbeats, envVars,
                   faults>>

\* A request calls botService.start() (api/bot/start/route.ts 25,
\* api/init/route.ts 29, server-init.ts 23 and 54). The timers of lines
\* 112-114 belong to the constructor: start() creates none.
StartCall(c, token) ==
    /\ StartSequence(c, token)
    /\ UNCHANGED <<documented, readyPromise, session, timers>>
    /\ UNCHANGED <<auxVars, passVars, connVars, rosterCache, heartbeats, envVars,
                   faults>>

\* bot.ts 365-366 then 399-404: client.login resolves and start() races
\* readyPromise against the LOGIN_TIMEOUT timer. A readyPromise that has
\* settled already decides the race in the same turn.
LoginOk(c) ==
    /\ calls[c].pc = "login"
    /\ session' = TRUE
    /\ CASE readyPromise = "pending" ->
               /\ calls' = [calls EXCEPT ![c] = [@ EXCEPT !.pc = "race"]]
               /\ UNCHANGED <<isInitializing, initializationError>>
         [] readyPromise = "resolved" ->
               /\ calls' = [calls EXCEPT ![c] =
                               [@ EXCEPT !.pc = "guildsFetch"]]
               /\ UNCHANGED <<isInitializing, initializationError>>
         [] OTHER -> FailStart(c, ClientError)
    /\ UNCHANGED <<documented, readyPromise, coolingDown, timers>>
    /\ UNCHANGED <<auxVars, passVars, connVars, rosterCache, heartbeats, envVars,
                   faults>>

\* bot.ts 367-376: client.login rejects; retry after RETRY_DELAY or throw.
LoginFail(c) ==
    /\ calls[c].pc = "login"
    /\ IF MayRetry(calls[c].attempt)
       THEN /\ calls' = [calls EXCEPT ![c] = [@ EXCEPT !.pc = "retryDelay"]]
            /\ UNCHANGED <<isInitializing, initializationError>>
       ELSE FailStart(c, LoginExhaustedError)
    /\ UNCHANGED <<documented, readyPromise, session, coolingDown, timers>>
    /\ UNCHANGED <<auxVars, passVars, connVars, rosterCache, heartbeats, envVars,
                   faults>>

\* bot.ts 372-373: the retry delay elapses; attemptLogin(token, attempt + 1).
RetryDelayDone(c) ==
    /\ calls[c].pc = "retryDelay"
    /\ calls' = [calls EXCEPT ![c] =
                    [@ EXCEPT !.pc = "login", !.attempt = @ + 1]]
    /\ UNCHANGED <<documented, isInitializing, readyPromise, session,
                   initializationError, coolingDown, timers>>
    /\ UNCHANGED <<auxVars, passVars, connVars, rosterCache, heartbeats, envVars,
                   faults>>

\* bot.ts 401-403 with 416-420: the LOGIN_TIMEOUT timer fires while the race
\* of line 399 is pending. LOGIN_TIMEOUT (30 s) is longer than
\* INITIALIZATION_COOLDOWN (5 s), which part_005 counts from the start of
\* the attempt (525): the cooldown is over when the timer fires.
ReadyTimeout(c) ==
    /\ calls[c].pc = "race"
    /\ ~coolingDown
    /\ FailStart(c, RaceTimeoutError)
    /\ UNCHANGED <<documented, readyPromise, session, coolingDown, timers>>
    /\ UNCHANGED <<auxVars, passVars, connVars, rosterCache, heartbeats, envVars,
                   faults>>

\* bot.ts 408-409: client.guilds.fetch() resolves.
GuildsFetchOk(c) ==
    /\ calls[c].pc = "guildsFetch"
    /\ guildCache' = Groups
    /\ calls' = [calls EXCEPT ![c] = [@ EXCEPT !.pc = "initConfigs"]]
    /\ UNCHANGED <<documented, isInitializing, readyPromise, session,
                   initializationError, coolingDown, timers>>
    /\ UNCHANGED <<auxVars, passVars, clientReady, everReady, roleCache, channelCache,
                   warm, rosterCache,
                   heartbeats, envVars, faults>>

\* bot.ts 408 with 416-420: client.guilds.fetch() rejects.
GuildsFetchFail(c) ==
    /\ calls[c].pc = "guildsFetch"
    /\ FailStart(c, RequestError)
    /\ UNCHANGED <<documented, readyPromise, session, coolingDown, timers>>
    /\ UNCHANGED <<auxVars, passVars, connVars, rosterCache, heartbeats, envVars,
                   faults>>

\* bot.ts 412-415 over 119-130: the initializeGuilds() of start() goes on
\* from loop state w; when the loop is over start() clears the flag and
\* resolves.
ContinueInit(c, w) ==
    IF w.pc = "idle"
    THEN /\ isInitializing' = FALSE
         /\ calls' = [calls EXCEPT ![c] = Settled(c, "resolved")]
    ELSE /\ calls' = [calls EXCEPT ![c] =
                         [@ EXCEPT !.pc = "initFetch", !.gi = w.gi]]
         /\ UNCHANGED isInitializing

\* bot.ts 118-119 called from 412
InitFindManyOk(c) ==
    /\ calls[c].pc = "initConfigs"
    /\ ContinueInit(c, InitializeGuildsFrom(guildCache, 1))
    /\ UNCHANGED <<documented, readyPromise, session, initializationError,
                   coolingDown, timers>>
    /\ UNCHANGED <<auxVars, passVars, connVars, rosterCache, heartbeats, envVars,
                   faults>>

\* bot.ts 118 called from 412, with 416-420: findMany rejects.
InitFindManyFail(c) ==
    /\ calls[c].pc = "initConfigs"
    /\ FailStart(c, RequestError)
    /\ UNCHANGED <<documented, readyPromise, session, coolingDown, timers>>
    /\ UNCHANGED <<auxVars, passVars, connVars, rosterCache, heartbeats, envVars,
                   faults>>

\* bot.ts 125-126 called from 412: the fetch of one guild's members resolves.
InitFetchOk(c) ==
    /\ calls[c].pc = "initFetch"
    /\ LET g == GuildConfigs[calls[c].gi].guildId
       IN  rosterCache' = [rosterCache EXCEPT ![g] =
                              [fetched |-> TRUE, holders |-> roleHolders[g]]]
    /\ ContinueInit(c, InitializeGuildsFrom(guildCache, calls[c].gi + 1))
    /\ UNCHANGED <<documented, readyPromise, session, initializationError,
                   coolingDown, timers>>
    /\ UNCHANGED <<auxVars, passVars, connVars, heartbeats, envVars, faults>>

\* A rejected fetch that leaves initializeGuilds and reaches the catch of
\* start().
InitFetchFailAborts(c) ==
    /\ calls[c].pc = "initFetch"
    /\ FailStart(c, RequestError)
    /\ UNCHANGED <<documented, readyPromise, session, coolingDown, timers>>
    /\ UNCHANGED <<auxVars, passVars, connVars, rosterCache, heartbeats, envVars,
                   faults>>

\* bot.ts 127-129 called from 412: the fetch rejects; logged, loop goes on.
InitFetchFail(c) ==
    /\ calls[c].pc = "initFetch"
    /\ ContinueInit(c, InitializeGuildsFrom(guildCache, calls[c].gi + 1))
    /\ UNCHANGED <<documented, readyPromise, session, initializationError,
                   coolingDown, timers>>
    /\ UNCHANGED <<auxVars, passVars, connVars, rosterCache, heartbeats, envVars,
                   faults>>

\* bot.ts 72-77: the client's 'error' event. readyReject(error) settles a
\* pending readyPromise: the race of line 399 rejects into the catch of
\* start(), and the callers that were handed readyPromise reject.
ClientErrorEvent ==
    /\ readyPromise' = IF readyPromise = "pending" THEN "rejected"
                       ELSE readyPromise
    /\ LET racing == {c \in Callers : calls[c].pc = "race"}
           hit == readyPromise = "pending"
       IN  /\ calls' = [c \in Callers |->
                          IF hit /\ calls[c].pc \in {"race", "shared"}
                          THEN Settled(c, ClientError)
                          ELSE calls[c]]
           /\ isInitializing' =
                  IF hit /\ racing # {} THEN FALSE ELSE isInitializing
           /\ initializationError' =
                  IF hit /\ racing # {} /\ documented THEN ClientError
                  ELSE initializationError
    /\ UNCHANGED <<documented, session, coolingDown, timers>>
    /\ UNCHANGED <<auxVars, passVars, connVars, rosterCache, heartbeats, envVars,
                   faults>>

\* part_005 512: INITIALIZATION_COOLDOWN has passed since the latest attempt.
CooldownElapses ==
    /\ coolingDown
    /\ coolingDown' = FALSE
    /\ UNCHANGED <<documented, isInitializing, readyPromise, session, calls,
                   initializationError, timers>>
    /\ UNCHANGED <<auxVars, passVars, connVars, rosterCache, heartbeats, envVars,
                   faults>>

\* bot.ts 60 after 365: the gateway emits 'ready' once a login has opened it.
GatewayReady == session /\ ClientReady

\* The service of either source file, no member tagged.
StartInit ==
    /\ processingPromise = NoPromise
    /\ pass = [p \in Slots |-> IdleRec]
    /\ lastTick = "none"
    /\ lastOutcome = "none"
    /\ clientReady = FALSE
    /\ everReady = FALSE
    /\ guildCache = {}
    /\ roleCache = {}
    /\ channelCache = {}
    /\ rosterCache = [g \in Groups |-> [fetched |-> FALSE, holders |-> {}]]
    /\ warm = [pc |-> "idle", gi |-> 0]
    /\ heartbeats = FALSE
    /\ roleHolders = [g \in Groups |-> {}]
    /\ tags = [m \in Members |-> NoTag]
    /\ faults = 0
    /\ tagChanges = 0
    /\ documented \in BOOLEAN
    /\ isInitializing = FALSE
    /\ readyPromise = "pending"
    /\ session = FALSE
    /\ calls = [c \in Callers |-> IdleCall]
    /\ initializationError = NoError
    /\ coolingDown = FALSE
    /\ timers = [checkGuilds |-> 1, sendHeartbeat |-> 1]
    /\ AuxInit

StartNext ==
    \/ \E c \in Callers, token \in BOOLEAN : StartCall(c, token)
    \/ \E c \in Callers : LoginOk(c)
    \/ \E c \in Callers : LoginFail(c)
    \/ \E c \in Callers : RetryDelayDone(c)
    \/ \E c \in Callers : ReadyTimeout(c)
    \/ \E c \in Callers : GuildsFetchOk(c)
    \/ \E c \in Callers : GuildsFetchFail(c)
    \/ \E c \in Callers : InitFindManyOk(c)
    \/ \E c \in Callers : InitFindManyFail(c)
    \/ \E c \in Callers : InitFetchOk(c)
    \/ \E c \in Callers : InitFetchFail(c)
    \/ GatewayReady
    \/ ClientErrorEvent
    \/ CooldownElapses
    \/ ShardDisconnect
    \/ ShardResume

\* start() and the connection events. The 'ready' handler's own
\* initializeGuilds() (WarmFindManyOk ... WarmFetchFail) is left suspended.
StartSpec == StartInit /\ [][StartNext]_vars

\* Timers fire and every request other than client.login() settles; the
\* platform may leave a login unanswered and may never emit 'ready'.
StartLiveSpec ==
    /\ StartSpec
    /\ WF_vars(CooldownElapses)
    /\ \A c \in Callers :
          /\ WF_vars(RetryDelayDone(c))
          /\ WF_vars(ReadyTimeout(c))
          /\ WF_vars(GuildsFetchOk(c) \/ GuildsFetchFail(c))
          /\ WF_vars(InitFindManyOk(c) \/ InitFindManyFail(c))
          /\ WF_vars(InitFetchOk(c) \/ InitFetchFail(c))

(* ---------------------------- specifications --------------------------- *)
Next ==
    \/ CheckGuildsTick
    \/ \E p \in Slots : FindManyOk(p)
    \/ \E p \in Slots : FindManyFail(p)
    \/ \E p \in Slots : RefreshOk(p)
    \/ \E p \in Slots : RefreshFail(p)
    \/ \E p \in Slots : PageOk(p)
    \/ \E p \in Slots : PageFail(p)
    \/ \E p \in Slots : DelayDone(p)
    \/ \E p \in Slots : MutateOk(p)
    \/ \E p \in Slots : MutateFail(p)
    \/ \E p \in Slots : SendOk(p)
    \/ \E p \in Slots : SendFail(p)
    \/ ClientReady
    \/ WarmFindManyOk
    \/ WarmFindManyFail
    \/ WarmFetchOk
    \/ WarmFetchFail
    \/ ShardDisconnect
    \/ ShardResume
    \/ HeartbeatTick
    \/ HeartbeatDone
    \/ TagChange

\* The reconciliation engine. The login that opens the gateway is taken as
\* done (ClientReady may come at any time); start() is the subject of
\* StartSpec.
Spec == Init /\ [][Next]_vars

\* The timer keeps firing and every pending call of a pass settles.
LiveSpec ==
    /\ Spec
    /\ WF_vars(CheckGuildsTick)
    /\ \A p \in Slots : WF_vars(PassStep(p))

\* Passes whose calls succeed, except the audit delivery, while guilds,
\* roles and channels leave the caches.
CacheNext ==
    \/ CheckGuildsTick
    \/ \E p \in Slots : FindManyOk(p)
    \/ \E p \in Slots : RefreshOk(p)
    \/ \E p \in Slots : PageOk(p)
    \/ \E p \in Slots : DelayDone(p)
    \/ \E p \in Slots : MutateOk(p)
    \/ \E p \in Slots : SendOk(p)
    \/ \E p \in Slots : SendFail(p)
    \/ ClientReady
    \/ \E g \in Groups : GuildDeleted(g)
    \/ \E r \in Roles : RoleDeleted(r)
    \/ \E ch \in LogChannels : ChannelDeleted(ch)

CacheSpec == Init /\ [][CacheNext]_vars

\* Roles as anyone may have left them, and nobody but the passes touching
\* tags, roles or rosters from then on.
QuietInit ==
    /\ processingPromise = NoPromise
    /\ pass = [p \in Slots |-> IdleRec]
    /\ lastTick = "none"
    /\ lastOutcome = "none"
    /\ clientReady = FALSE
    /\ everReady = FALSE
    /\ guildCache = {}
    /\ roleCache = {}
    /\ channelCache = {}
    /\ rosterCache = [g \in Groups |-> [fetched |-> FALSE, holders |-> {}]]
    /\ warm = [pc |-> "idle", gi |-> 0]
    /\ heartbeats = FALSE
    /\ roleHolders \in [Groups -> SUBSET Members]
    /\ tags \in [Members -> Tags]
    /\ faults = 0
    /\ tagChanges = 0
    /\ documented = FALSE
    /\ isInitializing = FALSE
    /\ readyPromise = "pending"
    /\ session = FALSE
    /\ calls = [c \in Callers |-> IdleCall]
    /\ initializationError = NoError
    /\ coolingDown = FALSE
    /\ timers = [checkGuilds |-> 1, sendHeartbeat |-> 1]
    /\ AuxInit

QuietNext ==
    \/ CheckGuildsTick
    \/ \E p \in Slots : FindManyOk(p)
    \/ \E p \in Slots : FindManyFail(p)
    \/ \E p \in Slots : RefreshOk(p)
    \/ \E p \in Slots : RefreshFail(p)
    \/ \E p \in Slots : PageOk(p)
    \/ \E p \in Slots : PageFail(p)
    \/ \E p \in Slots : DelayDone(p)
    \/ \E p \in Slots : MutateOk(p)
    \/ \E p \in Slots : MutateFail(p)
    \/ \E p \in Slots : SendOk(p)
    \/ \E p \in Slots : SendFail(p)
    \/ ClientReady

QuietSpec == QuietInit /\ [][QuietNext]_vars

(* ------------------------------ read paths ---------------------------- *)
\* bot.ts 303-308
GetGuilds == IF clientReady THEN guildCache ELSE {}

\* guilds/list/route.ts 23-31 without the test of line 23.
ListRespondUnchecked(rec) ==
    [rec EXCEPT !.pc = "done",
                !.out = [status |-> "200", guilds |-> GetGuilds]]

\* guilds/list/route.ts 18-31: the loop test, then the 503 or the list.
ListRespond(rec) ==
    IF ~IsLoggedIn /\ rec.retries < LIST_RETRIES
    THEN [rec EXCEPT !.pc = "wait"]
    ELSE IF ~IsLoggedIn
         THEN [rec EXCEPT !.pc = "done",
                          !.out = [status |-> "503",
                                   error |-> "Bot is not ready"]]
         ELSE [rec EXCEPT !.pc = "done",
                          !.out = [status |-> "200", guilds |-> GetGuilds]]

\* guilds/list/route.ts 11-18: getServerSession resolves.
ListGet(authed) ==
    /\ reads.list.pc = "idle"
    /\ reads' = [reads EXCEPT !.list =
                    IF authed THEN ListRespond([@ EXCEPT !.retries = 0])
                    ELSE [@ EXCEPT !.pc = "done",
                                   !.out = [status |-> "401",
                                            error |-> "Unauthorized"]]]
    /\ UNCHANGED <<passVars, connVars, rosterCache, heartbeats, envVars,
                   faults, startVars, beat, ensure, script>>

\* guilds/list/route.ts 19-20: the one-second timeout of the loop elapses.
ListRetry ==
    /\ reads.list.pc = "wait"
    /\ reads' = [reads EXCEPT !.list =
                    ListRespond([@ EXCEPT !.retries = @ + 1])]
    /\ UNCHANGED <<passVars, connVars, rosterCache, heartbeats, envVars,
                   faults, startVars, beat, ensure, script>>

\* bot/test/route.ts 4-18: the handler has no await.
TestGet ==
    /\ reads.test = NoResponse
    /\ reads' = [reads EXCEPT !.test =
                    [status |-> "success", isLoggedIn |-> IsLoggedIn,
                     guilds |-> GetGuilds]]
    /\ UNCHANGED <<passVars, connVars, rosterCache, heartbeats, envVars,
                   faults, startVars, beat, ensure, script>>

\* The client has its response; the next request can come.
ReadClose ==
    /\ reads.list.pc = "done" \/ reads.test # NoResponse
    /\ reads' = [list |-> IF reads.list.pc = "done" THEN IdleReads.list
                          ELSE reads.list,
                 test |-> NoResponse]
    /\ UNCHANGED <<passVars, connVars, rosterCache, heartbeats, envVars,
                   faults, startVars, beat, ensure, script>>

\* sendHeartbeat under its three triggers, in either source of BotService.
BeatInit ==
    /\ processingPromise = NoPromise
    /\ pass = [p \in Slots |-> IdleRec]
    /\ lastTick = "none"
    /\ lastOutcome = "none"
    /\ clientReady = FALSE
    /\ everReady = FALSE
    /\ guildCache = {}
    /\ roleCache = {}
    /\ channelCache = {}
    /\ rosterCache = [g \in Groups |-> [fetched |-> FALSE, holders |-> {}]]
    /\ warm = [pc |-> "idle", gi |-> 0]
    /\ heartbeats = FALSE
    /\ roleHolders = [g \in Groups |-> {}]
    /\ tags = [m \in Members |-> NoTag]
    /\ faults = 0
    /\ tagChanges = 0
    /\ documented \in BOOLEAN
    /\ isInitializing = FALSE
    /\ readyPromise = "pending"
    /\ session = FALSE
    /\ calls = [c \in Callers |-> IdleCall]
    /\ initializationError = NoError
    /\ coolingDown = FALSE
    /\ timers = [checkGuilds |-> 1, sendHeartbeat |-> 1]
    /\ AuxInit

BeatNext ==
    \/ HeartbeatTimer
    \/ ShardReadyBeat
    \/ ShardResumeBeat
    \/ BeatDone
    \/ TimePasses

BeatSpec == BeatInit /\ [][BeatNext]_vars

\* The routes that list the guilds while the gateway connects, drops and
\* resumes; either source of BotService.
ReadNext ==
    \/ \E authed \in BOOLEAN : ListGet(authed)
    \/ ListRetry
    \/ TestGet
    \/ ReadClose
    \/ ClientReady
    \/ ShardDisconnect
    \/ ShardResume

ReadSpec == BeatInit /\ [][ReadNext]_vars

(* ---------------------------- ensureBotStarted ------------------------- *)
\* The three sources of ensureBotStarted.
EnsureVariants == {"serverInit", "part026", "part027"}

\* botStartPromise is set and the start() it wraps has not settled.
SlotPending ==
    /\ ensure.slot # 0
    /\ ~ensure.kept
    /\ calls[ensure.slot].pc # "idle"

\* The start() that botStartPromise wraps has settled and the reactions
\* attached to it (finally / then / catch) have not run yet: they run before
\* any other request is served.
SlotSettling ==
    /\ ensure.slot # 0
    /\ ~ensure.kept
    /\ calls[ensure.slot].pc = "idle"

\* server-init.ts 34-66, part_026 67-100, part_027 5-14: one call of
\* ensureBotStarted up to its first await, in source v.
EnsureSequence(v, token) ==
    /\ ~SlotSettling
    /\ IF v = "serverInit" /\ IsLoggedIn
       THEN \* server-init.ts 41-43
            /\ ensure' = [ensure EXCEPT !.variant = v, !.last = "resolved"]
            /\ UNCHANGED <<isInitializing, calls, initializationError,
                           coolingDown>>
       ELSE IF v = "part026" /\ ensure.lastError /\ ensure.errorFresh
       THEN \* part_026 69-71
            /\ ensure' = [ensure EXCEPT !.variant = v, !.last = "rethrown"]
            /\ UNCHANGED <<isInitializing, calls, initializationError,
                           coolingDown>>
       ELSE IF ensure.slot # 0
       THEN \* server-init.ts 46-48, part_026 73 and 92, part_027 6 and 13
            /\ ensure' = IF ensure.kept
                         THEN [ensure EXCEPT !.variant = v,
                                             !.last = "resolved"]
                         ELSE [ensure EXCEPT !.variant = v,
                                             !.waiting = 1,
                                             !.last = "joined"]
            /\ UNCHANGED <<isInitializing, calls, initializationError,
                           coolingDown>>
       ELSE \* server-init.ts 51-54, part_026 75, part_027 7
            \E c \in Callers :
                /\ StartSequence(c, token)
                /\ ensure' = [ensure EXCEPT !.variant = v,
                                            !.slot = c,
                                            !.kept = FALSE,
                                            !.waiting = 1,
                                            !.last = "started"]

\* server-init.ts 69-73, part_026 102-106: the module is loaded and calls
\* ensureBotStarted at once.
EnsureLoad(v, token) ==
    /\ ensure.variant = "none"
    /\ EnsureSequence(v, token)
    /\ UNCHANGED <<documented, readyPromise, session, timers>>
    /\ UNCHANGED <<beat, reads, script, passVars, connVars, rosterCache,
                   heartbeats, envVars, faults>>

\* A request handler calls ensureBotStarted.
EnsureCall(token) ==
    /\ ensure.variant # "none"
    /\ EnsureSequence(ensure.variant, token)
    /\ UNCHANGED <<documented, readyPromise, session, timers>>
    /\ UNCHANGED <<beat, reads, script, passVars, connVars, rosterCache,
                   heartbeats, envVars, faults>>

\* server-init.ts 59-62 (finally), part_026 76-88 (then / catch), part_027
\* 7-11 (catch): the reactions to the settled start().
SettleSlot(ok) ==
    CASE ensure.variant = "serverInit" ->
             [ensure EXCEPT !.slot = 0, !.waiting = 0,
                            !.last = IF ok THEN "settledOk" ELSE "settledFail"]
      [] ensure.variant = "part026" ->
             IF ok
             THEN [ensure EXCEPT !.kept = TRUE, !.waiting = 0,
                                 !.lastError = FALSE, !.errorFresh = FALSE,
                                 !.last = "settledOk"]
             ELSE [ensure EXCEPT !.slot = 0, !.waiting = 0,
                                 !.lastError = TRUE, !.errorFresh = TRUE,
                                 !.last = "settledFail"]
      [] OTHER ->
             IF ok
             THEN [ensure EXCEPT !.kept = TRUE, !.waiting = 0,
                                 !.last = "settledOk"]
             ELSE [ensure EXCEPT !.slot = 0, !.waiting = 0,
                                 !.last = "settledFail"]

EnsureSettle ==
    /\ SlotSettling
    /\ ensure' = SettleSlot(calls[ensure.slot].out = "resolved")
    /\ UNCHANGED <<beat, reads, script, passVars, connVars, rosterCache,
                   heartbeats, envVars, faults, startVars>>

\* part_026 69: ERROR_CACHE_DURATION has passed since lastErrorTime.
EnsureErrorExpires ==
    /\ ensure.errorFresh
    /\ ensure' = [ensure EXCEPT !.errorFresh = FALSE]
    /\ UNCHANGED <<beat, reads, script, passVars, connVars, rosterCache,
                   heartbeats, envVars, faults, startVars>>

\* Every start() is made through ensureBotStarted, in any of its three
\* sources, on either source of BotService.
EnsureNext ==
    \/ \E v \in EnsureVariants, token \in BOOLEAN : EnsureLoad(v, token)
    \/ \E token \in BOOLEAN : EnsureCall(token)
    \/ EnsureSettle
    \/ EnsureErrorExpires
    \/ \E c \in Callers : LoginOk(c)
    \/ \E c \in Callers : LoginFail(c)
    \/ \E c \in Callers : RetryDelayDone(c)
    \/ \E c \in Callers : ReadyTimeout(c)
    \/ \E c \in Callers : GuildsFetchOk(c)
    \/ \E c \in Callers : GuildsFetchFail(c)
    \/ \E c \in Callers : InitFindManyOk(c)
    \/ \E c \in Callers : InitFindManyFail(c)
    \/ \E c \in Callers : InitFetchOk(c)
    \/ \E c \in Callers : InitFetchFail(c)
    \/ GatewayReady
    \/ ClientErrorEvent
    \/ CooldownElapses
    \/ ShardDisconnect
    \/ ShardResume

EnsureSpec == StartInit /\ [][EnsureNext]_vars

(* ------------------------- standalone polling script ------------------- *)
ScriptFrame ==
    UNCHANGED <<beat, reads, ensure, passVars, connVars, rosterCache,
                heartbeats, envVars, faults, startVars>>

\* part_000 191-192: the callback that awaited the pass goes on.
FinishRun(p) ==
    [script EXCEPT !.runs[p] = IdleRun, !.processingPromise = NoPromise]

\* part_000 138-145: the page loop is over; n role changes are to be made.
EnterMembers(p, n) ==
    IF n = 0 THEN FinishRun(p)
    ELSE [script EXCEPT !.runs[p] = [pc |-> "roles", more |-> FALSE,
                                      left |-> n]]

\* part_000 49-53 after 201: the login has succeeded and client.guilds.cache
\* holds the guild.
ScriptReady ==
    /\ ~script.guild
    /\ script' = [script EXCEPT !.guild = TRUE]
    /\ ScriptFrame

\* part_000 69-118: the 5 s interval fires.
ScriptTick ==
    /\ IF script.processingPromise # NoPromise
       THEN \* 71-73
            script' = [script EXCEPT !.lastTick = "skipped"]
       ELSE IF ~script.guild
       THEN \* 78-82 and 191-192 in one turn
            script' = [script EXCEPT !.lastTick = "empty"]
       ELSE \E p \in Slots :
                /\ script.runs[p].pc = "idle"
                /\ script' = [script EXCEPT
                                !.processingPromise = p,
                                !.runs[p] = [IdleRun EXCEPT !.pc = "page"],
                                !.lastTick = "started"]
    /\ ScriptFrame

\* part_000 118-131: a page of members arrives; hasMore is `more`.
ScriptPageOk(p, more) ==
    /\ script.runs[p].pc = "page"
    /\ script' = [script EXCEPT !.runs[p] =
                     [pc |-> "delay", more |-> more, left |-> 0]]
    /\ ScriptFrame

\* part_000 132-135: the request fails and the loop ends.
ScriptPageFail(p) ==
    /\ script.runs[p].pc = "page"
    /\ \E n \in 0..NumMembers : script' = EnterMembers(p, n)
    /\ ScriptFrame

\* part_000 131 then 116 or 138: the 100 ms delay is over.
ScriptDelayDone(p) ==
    /\ script.runs[p].pc = "delay"
    /\ IF script.runs[p].more
       THEN script' = [script EXCEPT !.runs[p] =
                          [IdleRun EXCEPT !.pc = "page"]]
       ELSE \E n \in 0..NumMembers : script' = EnterMembers(p, n)
    /\ ScriptFrame

\* part_000 155 / 159 with 170-174: roles.add or roles.remove settles; a
\* rejection is counted and the loop goes on.
ScriptRoleSettled(p) ==
    /\ script.runs[p].pc = "roles"
    /\ script' = IF script.runs[p].left = 1 THEN FinishRun(p)
                 ELSE [script EXCEPT !.runs[p].left = @ - 1]
    /\ ScriptFrame

\* part_000 196-199: some promise of the process was rejected with no
\* handler attached.
UnhandledRejection ==
    /\ script' = [script EXCEPT !.processingPromise = NoPromise]
    /\ ScriptFrame

ScriptNext ==
    \/ ScriptReady
    \/ ScriptTick
    \/ \E p \in Slots, more \in BOOLEAN : ScriptPageOk(p, more)
    \/ \E p \in Slots : ScriptPageFail(p)
    \/ \E p \in Slots : ScriptDelayDone(p)
    \/ \E p \in Slots : ScriptRoleSettled(p)
    \/ UnhandledRejection

ScriptSpec == BeatInit /\ [][ScriptNext]_vars


TypeOK ==
    /\ processingPromise \in {NoPromise} \cup Slots
    /\ \A p \in Slots : pass[p].pc \in
          {"idle", "configs", "refresh", "fetch", "delay", "mutate", "send"}
    /\ lastTick \in {"none", "dropped"}
    /\ lastOutcome \in {"none", "completed", "configError", "groupError"}
    /\ clientReady \in BOOLEAN
    /\ guildCache \subseteq Groups
    /\ roleCache \subseteq Roles
    /\ channelCache \subseteq LogChannels
    /\ heartbeats \in BOOLEAN
    /\ roleHolders \in [Groups -> SUBSET Members]
    /\ tags \in [Members -> Tags]
    /\ faults \in 0..MaxFaults
    /\ documented \in BOOLEAN
    /\ isInitializing \in BOOLEAN
    /\ readyPromise \in {"pending", "resolved", "rejected"}
    /\ session \in BOOLEAN
    /\ \A c \in Callers :
          /\ calls[c].pc \in OwnerWait \cup {"idle", "shared"}
          /\ calls[c].attempt \in 0..MAX_RETRIES
    /\ coolingDown \in BOOLEAN
    /\ ensure.variant \in EnsureVariants \cup {"none"}
    /\ ensure.slot \in {0} \cup Callers
    /\ ensure.kept => ensure.slot # 0
    /\ script.processingPromise \in {NoPromise} \cup Slots
    /\ \A p \in Slots :
          /\ script.runs[p].pc \in {"idle", "page", "delay", "roles"}
          /\ script.runs[p].left \in 0..NumMembers

(* ------------------------- vocabulary of the claims -------------------- *)
\* A later config of the list reaches its roster refresh.
LaterResolvable(i) ==
    \E j \in Groups : j > i /\ ~Skipped(GuildConfigs[j])

NextResolvable(i) ==
    CHOOSE j \in Groups :
        /\ j > i /\ ~Skipped(GuildConfigs[j])
        /\ \A k \in Groups : (k > i /\ k < j) => Skipped(GuildConfigs[k])

\* The step makes body p issue a call to the platform.
IssuesRemoteCall(p) ==
    /\ pass'[p] # pass[p]
    /\ pass'[p].pc \in RemoteWait

\* Member k of the group that body r is in needs an Add or a Remove.
NeedsMutation(r, k) ==
    LET c == GuildConfigs[r.gi]
    IN  (ShouldHaveRole(r.map, k, c) /\ ~HasRole(c, k))
        \/ (~ShouldHaveRole(r.map, k, c) /\ HasRole(c, k))

\* Every member of every resolved group holds the role iff tagged with it.
Converged ==
    \A g \in Groups :
        ~Skipped(GuildConfigs[g]) =>
            \A m \in Members : (m \in roleHolders[g]) <=> (tags[m] = g)

\* Body p holds `guild.members.cache` of its group (bot.ts 173 is behind it).
ReadsRoster(p) == pass[p].pc \in {"fetch", "delay", "mutate", "send"}

\* The initializeGuilds() of the 'ready' handler is past config i.
WarmDone(i) ==
    /\ everReady
    /\ warm.pc = "idle" \/ (warm.pc = "fetch" /\ warm.gi > i)

\* Configs after i whose guild is in the cache: those initializeGuilds
\* fetches.
LaterCached(i) == {j \in Groups : j > i /\ GuildConfigs[j].guildId \in guildCache}

\* The latest pass returned normally and a pass has refreshed the roster of
\* every group: the diff-and-apply step has run to its end for each group
\* (the guilds are cached from the ready signal on, and in QuietSpec only
\* a pass populates the roster cache).
RanAllGroups ==
    /\ lastOutcome = "completed"
    /\ \A g \in Groups : rosterCache[g].fetched

(* -------------------------------- claims ------------------------------- *)
\* C1: in every interleaving of timer ticks, heartbeats, connection events
\* and call completions, at most one reconciliation pass is active.
C1_MutualExclusion ==
    /\ Cardinality(ActiveSlots) <= 1
    /\ (processingPromise = NoPromise) <=> (ActiveSlots = {})

C1_Witness ==
    /\ lastTick = "dropped"
    /\ heartbeats
    /\ ~clientReady
    /\ \E p \in Slots : pass[p].pc = "mutate" /\ pass[p].mi = NumMembers

\* C2: once tags stop changing and calls stop failing, fair ticks bring every
\* member of every resolved group to hold the role iff tagged with the group,
\* and from then on no pass has a role mutation pending.
C2_Convergence ==
    <>[](Converged /\ \A p \in Slots : pass[p].pc # "mutate")

C2_Witness ==
    /\ Converged
    /\ tagChanges = MaxTagChanges
    /\ faults = MaxFaults
    /\ clientReady
    /\ lastOutcome = "completed"
    /\ \E g \in Groups : roleHolders[g] # {}
    /\ \E m \in Members : tags[m] = NoTag

\* C3: per member, an Add is attempted iff shouldHaveRole and not hasRole, a
\* Remove iff not shouldHaveRole and hasRole, nothing otherwise, where
\* shouldHaveRole iff the map holds a record of the member whose observed
\* guild is the config's guild.
C3_DiffTable ==
    \A p \in Slots :
        /\ \A i \in 1..Len(pass[p].decisions) :
              LET d == pass[p].decisions[i]
                  rec == pass[p]
                  belongs == /\ d.member \in DOMAIN rec.map
                             /\ rec.map[d.member] = GuildConfigs[rec.gi].guildId
              IN  /\ d.member = i
                  /\ d.should <=> belongs
                  /\ (d.op = "add") <=> (belongs /\ ~d.has)
                  /\ (d.op = "remove") <=> (~belongs /\ d.has)
                  /\ (d.op = "none") <=> (belongs <=> d.has)
        /\ pass[p].pc = "mutate" =>
              LET last == pass[p].decisions[Len(pass[p].decisions)]
              IN  last.member = pass[p].mi /\ last.op = pass[p].op
        /\ \A i \in 1..Len(pass[p].roleChanges) :
              \E j \in 1..Len(pass[p].decisions) :
                  /\ pass[p].decisions[j].member = pass[p].roleChanges[i].member
                  /\ pass[p].decisions[j].op = pass[p].roleChanges[i].type

C3_Witness ==
    \E p \in Slots :
        /\ Len(pass[p].decisions) = NumMembers
        /\ \E i, j \in 1..NumMembers :
              /\ pass[p].decisions[i].op = "remove"
              /\ pass[p].decisions[j].op = "add"

\* C4: after a fetch truncated by a page failure, no Remove is attempted for
\* a role holder whose record was on a page that was never fetched.
C4_NoRemoveAfterTruncation ==
    \A p \in Slots :
        (pass[p].pc = "mutate" /\ pass[p].op = "remove" /\ pass[p].truncated)
            => pass[p].mi \in DOMAIN pass[p].map

\* C5: a failed roster refresh of one group is contained at the group
\* boundary: the pass goes on with the next group that resolves.
C5_GroupFailureContained ==
    [][\A p \in Slots :
          (RefreshFail(p) /\ LaterResolvable(pass[p].gi)) =>
              /\ pass'[p].pc = "refresh"
              /\ pass'[p].gi = NextResolvable(pass[p].gi)]_vars

\* C6: a failed role mutation stops neither the member loop nor the pass:
\* the next member that needs a mutation gets it, and once a member of the
\* group has failed the pass still goes on to the audit send, to the next
\* group that resolves, or ends only when no later group resolves.
C6_MutationFailureContained ==
    [][\A p \in Slots :
          LET r == pass[p]
              r2 == pass'[p]
          IN  /\ MutateFail(p) =>
                    LET rest == {k \in Members :
                                    k > r.mi /\ NeedsMutation(r, k)}
                    IN  /\ r2.errorCount = r.errorCount + 1 \/ r2.gi # r.gi
                        /\ rest # {} =>
                              /\ r2.pc = "mutate" /\ r2.gi = r.gi
                              /\ \A k \in rest : r2.mi <= k
                              /\ r2.mi \in rest
                        /\ rest = {} => r2.pc # "mutate"
              /\ ((MutateFail(p) \/ r.errorCount > 0) /\ r2 # r) =>
                    \/ r2.gi = r.gi /\ r2.pc \in {"mutate", "send"}
                    \/ /\ LaterResolvable(r.gi)
                       /\ r2.pc = "refresh"
                       /\ r2.gi = NextResolvable(r.gi)
                    \/ /\ ~LaterResolvable(r.gi)
                       /\ r2 = IdleRec
                       /\ lastOutcome' = "completed"]_vars

C6_Witness ==
    \E p \in Slots :
        /\ pass[p].errorCount = 1
        /\ pass[p].pc = "mutate"
        /\ pass[p].mi = NumMembers
        /\ pass[p].gi < NumGroups

\* C7: a tick that finds a pass running changes nothing of the pass and
\* leaves nothing pending: a pass starts only in a tick that finds the field
\* empty, and when a pass ends no body is left running.
C7_TickDropped ==
    [][/\ (processingPromise # NoPromise /\ CheckGuildsTick) =>
              UNCHANGED <<processingPromise, pass, lastOutcome, connVars,
                          rosterCache, heartbeats, envVars, faults>>
       /\ \A p \in Slots :
              (pass[p].pc = "idle" /\ pass'[p].pc # "idle") =>
                  /\ processingPromise = NoPromise
                  /\ CheckGuildsTick
                  /\ pass'[p] = [IdleRec EXCEPT !.pc = "configs"]
       /\ (processingPromise # NoPromise /\ processingPromise' = NoPromise)
              => \A p \in Slots : pass'[p] = IdleRec]_vars

C7_Witness ==
    /\ lastTick = "dropped"
    /\ processingPromise = NoPromise
    /\ lastOutcome = "completed"
    /\ clientReady
    /\ \A g \in Groups : rosterCache[g].fetched
    /\ \A p \in Slots : pass[p] = IdleRec

\* C8: when every call of a pass settles, every started pass ends and the
\* in-flight field is cleared.
C8_PassEnds ==
    \A p \in Slots :
        Active(p) ~> (~Active(p) /\ processingPromise = NoPromise)

C8_Witness ==
    /\ lastOutcome = "groupError"
    /\ lastTick = "dropped"
    /\ processingPromise = NoPromise

\* C9: a failed config listing ends the pass at once: no group is entered,
\* no role or roster state changes, the field is cleared, and the next tick
\* starts a pass from the config listing.
C9_ConfigFailureAbortsPass ==
    /\ [][\A p \in Slots : FindManyFail(p) =>
              /\ pass'[p] = IdleRec
              /\ processingPromise' = NoPromise
              /\ lastOutcome' = "configError"
              /\ UNCHANGED <<roleHolders, rosterCache>>]_vars
    /\ [](lastOutcome = "configError" =>
              /\ processingPromise = NoPromise
              /\ \A p \in Slots : pass[p] = IdleRec)
    /\ [][(lastOutcome = "configError" /\ CheckGuildsTick) =>
              \E p \in Slots :
                  /\ processingPromise' = p
                  /\ pass'[p] = [IdleRec EXCEPT !.pc = "configs"]]_vars

C9_Witness ==
    /\ lastOutcome = "configError"
    /\ processingPromise = NoPromise
    /\ clientReady
    /\ lastTick = "none"

\* C10: while the ready gate is false no pass issues a roster refresh, an
\* attribute page fetch, a role mutation or an audit send.
C10_GateRespected ==
    [][\A p \in Slots : IssuesRemoteCall(p) => clientReady]_vars

\* C11: when the attempt in progress settles, every caller that called
\* start() during it settles in the same step with the same outcome:
\* resolved if the attempt succeeded, rejected if it failed.
C11_SharedOutcome ==
    [][\A c, d \in Callers :
          (/\ calls[c].pc \in OwnerWait
           /\ calls'[c].pc = "idle"
           /\ calls[d].pc = "shared")
              => /\ calls'[d].pc = "idle"
                 /\ (calls'[d].out = "resolved") <=> (calls'[c].out = "resolved")
      ]_vars

\* C12: whatever callers interleave, at most one call is inside attemptLogin
\* (awaiting client.login or the retry delay), and it holds the flag.
C12_OneLoginSequence ==
    /\ Cardinality(InLogin) <= 1
    /\ Cardinality(Owners) <= 1
    /\ InLogin # {} => isInitializing

C12_Witness ==
    \E c, d \in Callers :
        /\ calls[c].pc = "login" /\ calls[c].attempt = 2
        /\ calls[d].pc = "shared"
        /\ session

\* C13: a start() called while the connection is ready resolves at once and
\* logs in no more, whatever happened to earlier calls.
C13_ReadyStartResolves ==
    [][\A c \in Callers : \A token \in BOOLEAN :
          (clientReady /\ StartCall(c, token)) =>
              /\ calls'[c].pc = "idle"
              /\ calls'[c].out = "resolved"]_vars

\* C14: one start() sequence calls client.login at most MAX_RETRIES times: a
\* failed attempt is retried iff it was not the MAX_RETRIES-th, the sequence
\* fails for exhaustion exactly at the MAX_RETRIES-th failure, and after a
\* login that succeeded no further attempt is made.
C14_RetryBudget ==
    /\ [](\A c \in Callers : calls[c].attempt <= MAX_RETRIES)
    /\ [][\A c \in Callers :
             /\ LoginFail(c) =>
                   IF calls[c].attempt < MAX_RETRIES
                   THEN /\ calls'[c].pc = "retryDelay"
                        /\ calls'[c].attempt = calls[c].attempt
                   ELSE /\ calls[c].attempt = MAX_RETRIES
                        /\ calls'[c].pc = "idle"
                        /\ calls'[c].out = LoginExhaustedError
             /\ RetryDelayDone(c) =>
                   /\ calls'[c].pc = "login"
                   /\ calls'[c].attempt = calls[c].attempt + 1
             /\ LoginOk(c) => calls'[c].pc \notin {"login", "retryDelay"}
       ]_vars

C14_Witness ==
    \E c, d \in Callers :
        /\ calls[c].out = LoginExhaustedError
        /\ calls[d].pc = "race" /\ calls[d].attempt = MAX_RETRIES

\* C15: no failure of start() poisons the service: while no call is between
\* its login and its end the flag is clear, so that a later start() logs in
\* again.
C15_NoPoisoning ==
    isInitializing => Owners # {}

\* C16: every start() call settles, also when client.login never returns:
\* the timers fire and every other request settles.
C16_StartSettles ==
    \A c \in Callers : (calls[c].pc # "idle") ~> (calls[c].pc = "idle")

\* C17: when the LOGIN_TIMEOUT timer wins the race, start() rejects with the
\* timeout error, which is not the error of an exhausted retry budget (and
\* an exhausted budget never yields the timeout error), and the flag is clear.
C17_TimeoutDistinct ==
    [][\A c \in Callers :
          /\ ReadyTimeout(c) =>
                /\ calls'[c].pc = "idle"
                /\ calls'[c].out = RaceTimeoutError
                /\ calls'[c].out # LoginExhaustedError
                /\ ~isInitializing'
          /\ LoginFail(c) => calls'[c].out # RaceTimeoutError]_vars

C17_Witness ==
    \E c \in Callers :
        /\ calls[c].out = RaceTimeoutError
        /\ session /\ ~everReady
        /\ ~isInitializing

\* C18: the gate callers see is true exactly when the connection is ready.
C18_GateIffReady ==
    IsLoggedIn <=> clientReady

\* C19: once ready has been reached, the gate never turns false across a
\* drop and its resume. Drops and resumes may come at any time after ready,
\* so every step from a state with the gate true is inside such a window.
C19_NoFlicker ==
    [][(everReady /\ IsLoggedIn) => IsLoggedIn']_vars

\* C20: whatever start() calls were made and however they ended, the service
\* has exactly one checkGuilds timer and one sendHeartbeat timer.
C20_TimersOnce ==
    timers = [checkGuilds |-> 1, sendHeartbeat |-> 1]

C20_Witness ==
    \E c, d \in Callers :
        /\ calls[c].out = "resolved"
        /\ calls[d].out = LoginExhaustedError
        /\ timers.checkGuilds = 1 /\ timers.sendHeartbeat = 1

\* C21: the service opens one connection: once a client.login() has
\* resolved, no start() calls client.login() again.
C21_OneConnection ==
    [][\A c \in Callers :
          (session /\ calls'[c].pc = "login") => calls[c].pc = "login"]_vars

\* C22: no pass holds or reads the roster cache of a group before the warm
\* fetch that the 'ready' handler starts has passed that group.
C22_WarmBeforeRead ==
    \A p \in Slots : ReadsRoster(p) => WarmDone(pass[p].gi)

\* C23: in initializeGuilds a rejected roster fetch of one group is followed
\* by the fetch of the next cached group, and when none is left start()
\* resolves: the failure never rejects start().
C23_WarmFailureContained ==
    [][\A c \in Callers :
          InitFetchFail(c) =>
              LET i == calls[c].gi
              IN  IF LaterCached(i) # {}
                  THEN /\ calls'[c].pc = "initFetch"
                       /\ calls'[c].gi \in LaterCached(i)
                       /\ \A j \in LaterCached(i) : calls'[c].gi <= j
                  ELSE /\ calls'[c].pc = "idle"
                       /\ calls'[c].out = "resolved"
                       /\ ~isInitializing']_vars

C23_Witness ==
    \E c \in Callers :
        /\ calls[c].pc = "initFetch"
        /\ calls[c].gi = NumGroups
        /\ \A g \in Groups : ~rosterCache[g].fetched

\* C22 as amended: no pass holds or reads the roster cache of a group before
\* a roster fetch of that group, the warm one or the pass's own, has
\* resolved.
C22_FetchBeforeRead ==
    \A p \in Slots :
        ReadsRoster(p) => rosterCache[GuildConfigs[pass[p].gi].guildId].fetched

C22_Witness ==
    \E p \in Slots :
        /\ pass[p].pc = "mutate"
        /\ warm.pc = "configs"
        /\ rosterCache[GuildConfigs[pass[p].gi].guildId].fetched

C25_PageFailureEndsFetch ==
    /\ [][\A p \in Slots :
             PageFail(p) =>
                 /\ pass'[p].pc \notin {"fetch", "delay"}
                 /\ lastOutcome' # "groupError"
                 /\ pass'[p].gi = pass[p].gi =>
                        /\ pass'[p].map = pass[p].map
                        /\ pass'[p].requests = pass[p].requests + 1
                        /\ pass'[p].truncated]_vars
    /\ [](\A p \in Slots :
             pass[p].truncated =>
                 /\ pass[p].pc \in {"mutate", "send"}
                 /\ DOMAIN pass[p].map = 1..pass[p].after
                 /\ pass[p].after = (pass[p].requests - 1) * PageSize)

C25_Witness ==
    \E p \in Slots :
        /\ pass[p].truncated
        /\ pass[p].pc = "mutate"
        /\ pass[p].requests = 2
        /\ DOMAIN pass[p].map = 1..PageSize

\* C26: a pass enters a group only at its roster refresh and only if the
\* guild and the role are cached and the log channel, when configured, is
\* too; every group between the one it leaves and the one it enters, and
\* every later group when the pass ends there, is one of the others. Page
\* fetches, mutations and the audit send are for the group entered, and
\* roles change only by the mutation of a pass in that group.
C26_SkippedGroupsUntouched ==
    [][/\ \A p \in Slots :
            LET r == pass[p]
                r2 == pass'[p]
                from == IF r.pc = "configs" THEN 0 ELSE r.gi
                absent(i) ==
                    LET c == GuildConfigs[i]
                    IN  \/ c.guildId \notin guildCache
                        \/ c.representorsRoleId \notin roleCache
                        \/ /\ c.logChannelId # NoChannel
                           /\ c.logChannelId \notin channelCache
            IN  /\ \A i \in Groups :
                      (r2.pc # "idle" /\ r2.gi = i /\ r.gi # i) =>
                          /\ r.pc # "idle"
                          /\ r2.pc = "refresh"
                          /\ i > from
                          /\ ~absent(i)
                          /\ \A j \in Groups : (from < j /\ j < i) => absent(j)
                /\ (r.pc \notin {"idle", "refresh"} /\ r2.pc = "idle"
                       /\ lastOutcome' = "completed") =>
                          \A j \in Groups : from < j => absent(j)
                /\ r2.pc \in {"fetch", "delay", "mutate", "send"} =>
                          /\ r2.gi = r.gi
                          /\ r.pc \in {"refresh", "fetch", "delay", "mutate",
                                        "send"}
       /\ \A g \in Groups :
            roleHolders'[g] # roleHolders[g] =>
                \E p \in Slots : /\ pass[p].pc = "mutate"
                                  /\ GuildConfigs[pass[p].gi].guildId = g]_vars

C26_Witness ==
    \E p \in Slots :
        /\ pass[p].pc = "refresh"
        /\ pass[p].gi = 2
        /\ GuildConfigs[1].guildId \in guildCache
        /\ GuildConfigs[1].representorsRoleId \in roleCache
        /\ GuildConfigs[1].logChannelId \notin channelCache
        /\ ~rosterCache[GuildConfigs[1].guildId].fetched
        /\ \E m \in Members : tags[m] = GuildConfigs[1].guildId

\* C27: a pass moves from group N to a later group only at a step that
\* completes the audit send of N, or that completes the last call of N when
\* no audit message is due (no channel, or no change made) and no member
\* after the current one needs a mutation; it enters the later group at its
\* roster refresh, and the groups in between are not resolvable.
C27_GroupsInOrder ==
    [][\A p \in Slots :
          LET r == pass[p]
              r2 == pass'[p]
              c == GuildConfigs[r.gi]
              changed == Len(r.roleChanges) > 0 \/ roleHolders' # roleHolders
              pending == \E k \in Members :
                            /\ k > r.mi
                            /\ k <= CachedMembers(c)
                            /\ NeedsMutation(r, k)
          IN  (r.gi \in Groups /\ r2.gi \in Groups /\ r2.gi # r.gi) =>
                  /\ r2.gi > r.gi
                  /\ r2.pc = "refresh"
                  /\ \A j \in Groups :
                        (r.gi < j /\ j < r2.gi) =>
                            GuildConfigs[j].guildId \notin guildCache
                  /\ \/ r.pc = "send"
                     \/ /\ r.pc \in {"fetch", "delay", "mutate"}
                        /\ ~pending
                        /\ c.logChannelId = NoChannel \/ ~changed]_vars

C27_Witness ==
    \E p \in Slots :
        /\ pass[p].pc = "refresh"
        /\ pass[p].gi = 2
        /\ roleHolders[1] # {}
        /\ lastOutcome = "none"
        /\ tagChanges = 0
        /\ faults = 0

C29_AuditMessage ==
    \A p \in Slots :
        pass[p].pc = "send" =>
            LET ch == pass[p].roleChanges
                msg == pass[p].message
                Of(t) == {i \in DOMAIN ch : ch[i].type = t}
                Field(n) == {i \in DOMAIN msg : msg[i].name = n}
                Lists(n, t) ==
                    \A i \in Field(n) :
                        /\ Len(msg[i].value) = Cardinality(Of(t))
                        /\ \A k \in DOMAIN msg[i].value :
                              \E j \in Of(t) :
                                  /\ ch[j].member = msg[i].value[k]
                                  /\ Cardinality({h \in Of(t) : h <= j}) = k
            IN  /\ Len(ch) > 0
                /\ \A i \in DOMAIN msg : msg[i].name \in {"Added", "Removed"}
                /\ Cardinality(Field("Added")) =
                       IF Of("add") # {} THEN 1 ELSE 0
                /\ Cardinality(Field("Removed")) =
                       IF Of("remove") # {} THEN 1 ELSE 0
                /\ Lists("Added", "add")
                /\ Lists("Removed", "remove")

C29_Witness ==
    \E p \in Slots :
        /\ pass[p].pc = "send"
        /\ \E i, j \in DOMAIN pass[p].roleChanges :
              /\ pass[p].roleChanges[i].type = "add"
              /\ pass[p].roleChanges[j].type = "remove"
        /\ Len(pass[p].message) = 2

\* C30: a rejected audit delivery is not issued again and raises nothing:
\* the pass goes on to the roster refresh of the next resolvable group, or
\* ends normally with processingPromise cleared; no role changes. A pass
\* comes to the delivery of a group only from another call of that group.
C30_AuditFailureContained ==
    [][\A p \in Slots :
          LET r == pass[p]
              r2 == pass'[p]
          IN  /\ SendFail(p) =>
                    /\ r2.pc # "send"
                    /\ roleHolders' = roleHolders
                    /\ IF LaterResolvable(r.gi)
                       THEN /\ r2.pc = "refresh"
                            /\ r2.gi = NextResolvable(r.gi)
                            /\ processingPromise' = processingPromise
                       ELSE /\ r2.pc = "idle"
                            /\ lastOutcome' = "completed"
                            /\ processingPromise' = NoPromise
              /\ (r2.pc = "send" /\ r.pc # "send") =>
                    /\ r.pc \in {"fetch", "delay", "mutate"}
                    /\ r2.gi = r.gi]_vars

C30_Witness ==
    \E p \in Slots :
        /\ faults = 1
        /\ pass[p].pc = "refresh"
        /\ pass[p].gi = 2
        /\ roleHolders[1] # {}

\* C31: a call of sendHeartbeat made within the debounce window of the
\* latest POST issues none, so that two POSTs are at least the window apart,
\* and a call that is ignored leaves the start of the window where it was.
C31_Debounce ==
    [][/\ (beat'.posts = beat.posts + 1 /\ beat.posts > 0) =>
              beat.now - beat.lastPost >= HEARTBEAT_DEBOUNCE
       /\ beat'.lastCall = "ignored" =>
              /\ beat'.lastHeartbeat = beat.lastHeartbeat
              /\ beat'.lastPost = beat.lastPost]_vars

\* C32: a heartbeat POST that settles, with a bad status or a rejection as
\* well as with success, changes nothing of the connection, of the pass in
\* flight or its flag, or of the timers; and the heartbeat timer can fire
\* whether or not a pass is in flight.
C32_HeartbeatIsolated ==
    /\ [][HeartbeatDone =>
             UNCHANGED <<clientReady, everReady, guildCache, warm,
                         processingPromise, pass, lastTick, lastOutcome,
                         timers, roleHolders, rosterCache>>]_vars
    /\ [](processingPromise # NoPromise => ENABLED HeartbeatTick)

C32_Witness ==
    /\ heartbeats
    /\ processingPromise # NoPromise
    /\ pass[processingPromise].pc = "mutate"

C34_ChangeListExact ==
    /\ [][\A p \in Slots :
             LET r == pass[p]
                 r2 == pass'[p]
             IN  (r2.gi = r.gi /\ r.gi \in Groups) =>
                     IF MutateOk(p)
                     THEN r2.roleChanges =
                              Append(r.roleChanges,
                                     [type |-> r.op, member |-> r.mi])
                     ELSE r2.roleChanges = r.roleChanges]_vars
    /\ [](\A p \in Slots :
             LET r == pass[p]
                 ch == r.roleChanges
                 decided == {i \in DOMAIN r.decisions :
                                r.decisions[i].op # "none"}
             IN  /\ \A i, j \in DOMAIN ch :
                       i < j => ch[i].member < ch[j].member
                 /\ \A i \in DOMAIN ch :
                       (ch[i].type = "add") <=>
                           (ch[i].member \in
                               roleHolders[GuildConfigs[r.gi].guildId])
                 /\ Cardinality(decided) =
                       Len(ch) + r.errorCount
                           + (IF r.pc = "mutate" THEN 1 ELSE 0))

C34_Witness ==
    \E p \in Slots :
        /\ pass[p].pc = "send"
        /\ pass[p].errorCount = 1
        /\ Len(pass[p].roleChanges) = 1
        /\ pass[p].roleChanges[1].member = NumMembers

\* C35: after a start() has thrown for the missing token, a start() made
\* with a token, while no attempt is in progress, the client is not ready
\* and no cooldown is running, calls client.login.
C35_TokenFailureRecovers ==
    [][\A c \in Callers :
          (/\ StartCall(c, TRUE)
           /\ \E d \in Callers : calls[d].out = TokenMissingError
           /\ Owners = {}
           /\ ~clientReady
           /\ ~coolingDown) =>
              /\ calls'[c].pc = "login"
              /\ calls'[c].attempt = 1]_vars

\* C36: a start() whose client.login resolves goes on to wait for the ready
\* signal (or, the signal having come, to fetch the guilds); it does not
\* reject at once, whatever 'error' events came before.
C36_FreshReadyWait ==
    [][\A c \in Callers :
          LoginOk(c) =>
              /\ calls'[c].pc \in {"race", "guildsFetch"}
              /\ calls'[c].out = NoError]_vars

\* C37: at the step a start() call resolves, with the client ready, the
\* gate isLoggedIn() is true.
C37_ResolvedMeansLoggedIn ==
    [][\A c \in Callers :
          (/\ calls'[c].out = "resolved"
           /\ calls'[c] # calls[c]
           /\ clientReady') => IsLoggedIn']_vars

\* C38: in part_005 a start() made while the stored error is within its
\* cooldown throws that error and logs in no more; a start() made after the
\* cooldown with a token, the client not ready and no attempt in progress,
\* clears the error and calls client.login; and the cooldown is running at
\* the step an attempt fails, so that the calls of the next 5 s find it.
C38_Cooldown ==
    [][\A c \in Callers :
          /\ \A token \in BOOLEAN :
                (/\ documented /\ StartCall(c, token)
                 /\ initializationError # NoError /\ coolingDown) =>
                    /\ calls'[c].pc = "idle"
                    /\ calls'[c].out = initializationError
                    /\ initializationError' = initializationError
                    /\ isInitializing' = isInitializing
          /\ (/\ documented /\ StartCall(c, TRUE)
              /\ initializationError # NoError /\ ~coolingDown
              /\ ~clientReady /\ ~isInitializing) =>
                    /\ calls'[c].pc = "login"
                    /\ initializationError' = NoError
                    /\ coolingDown'
          /\ (/\ documented
              /\ calls[c].pc \in OwnerWait
              /\ calls'[c].pc = "idle"
              /\ calls'[c].out # "resolved") => coolingDown']_vars

\* C39: a call of ensureBotStarted made while the start() it stored is
\* pending makes no start() and leaves botStartPromise as it is, the caller
\* awaiting that promise (or, in server-init.ts, returning at once because
\* the bot is logged in already); and the reactions to the settled start()
\* clear botStartPromise, whether it resolved or rejected.
C39_SingleFlight ==
    [][/\ (SlotPending /\ ensure'.last # ensure.last) =>
              /\ calls' = calls
              /\ ensure'.slot = ensure.slot
              /\ ensure'.last \in {"joined", "resolved"}
       /\ (SlotSettling /\ ensure' # ensure) => ensure'.slot = 0]_vars

\* C40: processingPromise goes back to null only at the step the pass
\* that set it finishes, and no two passes are running at once.
C40_FlagClearedByOwner ==
    /\ [][(/\ script.processingPromise # NoPromise
           /\ script'.processingPromise = NoPromise) =>
              /\ script.runs[script.processingPromise].pc # "idle"
              /\ script'.runs[script.processingPromise].pc = "idle"]_vars
    /\ [](Cardinality({p \in Slots : script.runs[p].pc # "idle"}) <= 1)

====
